---- MODULE Spec2Model ----
(***************************************************************************)
(* CAN log converter / analyzer: the frame text parser (parseCanLogFile    *)
(* and its recognizers), the signal decode engine (extractSignalValue,     *)
(* decodeMessages) and the catalog parser (parseDbcFile).                  *)
(*                                                                         *)
(* Text is a sequence of one-character strings.  A JavaScript number is    *)
(* an Int where the code keeps it in 32 bits (the bitwise operators), and  *)
(* a two-limb record [hi, lo] (value hi * 2^16 + lo) where the code does   *)
(* floating-point arithmetic on it, since that leaves the 32-bit range.    *)
(***************************************************************************)
EXTENDS Integers, Sequences, FiniteSets, TLC

VARIABLES
    \* one activation of extractSignalValue
    data,           \* the Uint8Array argument: a sequence of bytes 0..255
    signal,         \* the SignalDefinition argument
    rawValue,       \* local rawValue after the extraction loop (an int32)
    rawAdjusted,    \* local rawValue after the two's-complement step
    physValue,      \* the returned number
    epc,            \* position inside extractSignalValue
    encodedBits,    \* history: the set bits of the raw value the payload was encoded from
    \* one activation of parseCanLogFile
    build,          \* which version of the parser module runs
    content,        \* argument content
    fileName,       \* argument fileName
    lines,          \* local lines
    orderedParsers, \* local orderedParsers
    lineIdx,        \* index of the line the outer loop is at
    parserIdx,      \* index of the recognizer the inner loop is at
    messages,       \* local messages, the result
    ppc,            \* position inside parseCanLogFile
    calls,          \* history: the recognizer invocations made, <<line index, recognizer>>
    origins,        \* history: for each element of messages, the index of its line
    \* activations of decodeMessages
    matrix,         \* argument matrix
    decIn,          \* argument messages: the frames passed in
    decOut,         \* the frames the map callback has returned so far
    decodes,        \* how many calls of decodeMessages have been started
    dpc,            \* position inside decodeMessages
    prevMatrix,     \* history: the matrix of the call that produced decIn (Null at the first call)
    cut,            \* how many frames of decIn the first of two separate calls gets
    partOut,        \* the arrays the calls on the two parts of decIn have returned
    heap,           \* the objects the calls work on: those of the matrix, then those created
    called,         \* which of the calls on the parts and on the whole list have been made
    \* activations of parseDbcFile
    dbcContent,       \* argument content
    dbcLines,         \* content.split('\n')
    dbcIdx,           \* index of the line the loop is at
    dbcMatrix,        \* local matrix
    currentMessage,   \* local currentMessage (Null for null)
    currentMessageId, \* local currentMessageId (NoText for null)
    mpc               \* position inside parseDbcFile

extractVars == <<data, signal, rawValue, rawAdjusted, physValue, epc, encodedBits>>

parseVars == <<build, content, fileName, lines, orderedParsers, lineIdx, parserIdx,
               messages, ppc, calls, origins>>

decodeVars == <<matrix, decIn, decOut, decodes, dpc, prevMatrix, cut, partOut, heap, called>>

dbcVars == <<dbcContent, dbcLines, dbcIdx, dbcMatrix, currentMessage, currentMessageId, mpc>>

vars == <<data, signal, rawValue, rawAdjusted, physValue, epc, encodedBits,
          build, content, fileName, lines, orderedParsers, lineIdx, parserIdx,
          messages, ppc, calls, origins,
          matrix, decIn, decOut, decodes, dpc, prevMatrix, cut, partOut, heap, called,
          dbcContent, dbcLines, dbcIdx, dbcMatrix, currentMessage, currentMessageId, mpc>>

(***************************************************************************)
(* JavaScript numbers                                                      *)
(***************************************************************************)

\* The limb base of the two-limb representation of a double holding an integer.
Base == 2^16

\* The number n (an Int) as a double.
Num(n) == [hi |-> n \div Base, lo |-> n % Base]

NumAdd(a, b) ==
    LET s == a.lo + b.lo
    IN  [hi |-> a.hi + b.hi + (s \div Base), lo |-> s % Base]

NumNeg(a) ==
    IF a.lo = 0 THEN [hi |-> 0 - a.hi, lo |-> 0]
                ELSE [hi |-> 0 - a.hi - 1, lo |-> Base - a.lo]

NumSub(a, b) == NumAdd(a, NumNeg(b))

\* a * k for an Int k of small magnitude.
NumMul(a, k) ==
    LET p == a.lo * k
    IN  [hi |-> a.hi * k + (p \div Base), lo |-> p % Base]

NumLess(a, b) == a.hi < b.hi \/ (a.hi = b.hi /\ a.lo < b.lo)

NumAbs(a) == IF a.hi < 0 THEN NumNeg(a) ELSE a

\* floor(a / 10) for a >= 0.
NumDiv10(a) ==
    [hi |-> a.hi \div 10, lo |-> ((a.hi % 10) * Base + a.lo) \div 10]

\* 1 << n: the shift count is taken modulo 32 and the result is an int32.
ShiftLeftOne(n) ==
    IF n % 32 = 31 THEN (0 - 2^30) - 2^30 ELSE 2^(n % 32)

\* Bit k (0..31) of an int32 in two's complement.
Bit32(x, k) == IF k = 31 THEN x < 0 ELSE (x \div 2^k) % 2 = 1

\* The int32 whose set bits are the positions in K, summed over lo..hi.
RECURSIVE SumBits(_, _, _)
SumBits(K, lo, hi) ==
    IF lo = hi THEN (IF lo \in K THEN ShiftLeftOne(lo) ELSE 0)
    ELSE LET mid == (lo + hi) \div 2
         IN  SumBits(K, lo, mid) + SumBits(K, mid + 1, hi)

FromBits(K) == SumBits(K, 0, 31)

\* The bitwise OR of a set of int32 values, 0 for the empty set.
OrAll(M) == FromBits({k \in 0..31 : \E m \in M : Bit32(m, k)})

\* a | b on int32 operands.
BitOr(a, b) == OrAll({a, b})

\* a & b on int32 operands.
BitAnd(a, b) == FromBits({k \in 0..31 : Bit32(a, k) /\ Bit32(b, k)})

\* (byte >> bitInByte) & 1 for a byte 0..255.
ByteBit(byte, bitInByte) == (byte \div 2^bitInByte) % 2

(***************************************************************************)
(* extractSignalValue                                                      *)
(***************************************************************************)

\* The bound of the big-endian scan, 8 * 8 stream positions.
StreamBits == 64

\* The little-endian loop.  Iteration i ORs 1 << i into rawValue when the byte
\* of payload bit startBit + i exists and has that bit set; the loop's result
\* is the OR of the masks of those iterations.
LittleEndianRaw(d, sig) ==
    LET BitIsSet(i) ==
            LET bitIndex  == sig.startBit + i
                byteIndex == bitIndex \div 8
                bitInByte == bitIndex % 8
            IN  /\ ~(byteIndex >= Len(d))                          \* continue
                /\ ByteBit(d[byteIndex + 1], bitInByte) = 1
    IN  OrAll({ShiftLeftOne(i) : i \in {j \in 0..(sig.length - 1) : BitIsSet(j)}})

\* The stream positions the big-endian loop reaches before its break.
Scanned(d) == {i \in 0..(StreamBits - 1) : ~((i \div 8) >= Len(d))}

\* i >= signal.startBit && i < signal.startBit + signal.length
InSignal(sig, i) == i >= sig.startBit /\ i < sig.startBit + sig.length

\* bitCount when the big-endian loop is at position i: one increment for
\* each earlier position inside the signal.
BitCountAt(sig, i) == Cardinality({j \in 0..(i - 1) : InSignal(sig, j)})

\* A big-endian scan that shifts each consumed bit in below the previous ones
\* (rawValue = (rawValue << 1) | bit): a bit consumed at position i ends at
\* the bit position equal to the number of bits consumed after it, and is
\* lost when shifted past bit 31.  It agrees with the code's scan only when
\* the scan is not cut short by the end of the payload.
BigEndianRawShiftIn(d, sig) ==
    LET BitIsSet(i) == ByteBit(d[(i \div 8) + 1], 7 - (i % 8)) = 1
        After(i)    == Cardinality({j \in Scanned(d) : InSignal(sig, j) /\ j > i})
    IN  OrAll({ShiftLeftOne(After(i)) :
                 i \in {j \in Scanned(d) :
                           InSignal(sig, j) /\ BitIsSet(j) /\ After(j) <= 31}})

\* The big-endian loop: the OR of 1 << (length - 1 - bitCount) over the
\* scanned positions inside the signal whose bit is set.
BigEndianRaw(d, sig) ==
    LET BitIsSet(i) == ByteBit(d[(i \div 8) + 1], 7 - (i % 8)) = 1
    IN  OrAll({ShiftLeftOne(sig.length - 1 - BitCountAt(sig, i)) :
                 i \in {j \in Scanned(d) : InSignal(sig, j) /\ BitIsSet(j)}})

\* rawValue after the if/else on signal.isLittleEndian.
ExtractRaw(d, sig) ==
    IF sig.isLittleEndian THEN LittleEndianRaw(d, sig) ELSE BigEndianRaw(d, sig)

\* The two's-complement step: rawValue -= 1 << length is a double subtraction.
SignAdjust(raw, sig) ==
    IF sig.isSigned /\ BitAnd(raw, ShiftLeftOne(sig.length - 1)) # 0
    THEN NumSub(Num(raw), Num(ShiftLeftOne(sig.length)))
    ELSE Num(raw)

\* rawValue * signal.scale + signal.offset.
ScaleOffset(adj, sig) == NumAdd(NumMul(adj, sig.scale), Num(sig.offset))

extractSignalValue(d, sig) == ScaleOffset(SignAdjust(ExtractRaw(d, sig), sig), sig)

\* The inverse of the extraction rule: the 8-byte payload, zero elsewhere,
\* in which the signal's bits are those of the raw value with set bits K.
\* Little-endian: raw bit i is payload bit startBit + i.  Big-endian: raw
\* bit i is stream position startBit + length - 1 - i, and stream position
\* k is bit 7 - k mod 8 of byte k div 8.
Encode(sig, K) ==
    LET RawBitAt(byteIndex, bitInByte) ==
            IF sig.isLittleEndian
            THEN (8 * byteIndex + bitInByte) - sig.startBit
            ELSE sig.startBit + sig.length - 1 - (8 * byteIndex + (7 - bitInByte))
        ByteBits(byteIndex) ==
            {b \in 0..7 : /\ RawBitAt(byteIndex, b) \in 0..(sig.length - 1)
                          /\ RawBitAt(byteIndex, b) \in K}
    IN  [n \in 1..8 |-> FromBits(ByteBits(n - 1))]

(***************************************************************************)
(* Text: a string is a sequence of one-character strings                   *)
(***************************************************************************)

Digit == {"0", "1", "2", "3", "4", "5", "6", "7", "8", "9"}

HexDigit == Digit \cup {"a", "b", "c", "d", "e", "f", "A", "B", "C", "D", "E", "F"}

LowerLetters == <<"a", "b", "c", "d", "e", "f", "g", "h", "i", "j", "k", "l", "m", "n", "o", "p", "q", "r", "s", "t", "u", "v", "w", "x", "y", "z">>

UpperLetters == <<"A", "B", "C", "D", "E", "F", "G", "H", "I", "J", "K", "L", "M", "N", "O", "P", "Q", "R", "S", "T", "U", "V", "W", "X", "Y", "Z">>

\* \w
WordChar ==
    Digit \cup {LowerLetters[i] : i \in 1..26} \cup {UpperLetters[i] : i \in 1..26} \cup {"_"}

\* \s, which is also what String.prototype.trim removes and what parseInt
\* skips: tab, line feed, vertical tab, form feed, carriage return, space, the
\* no-break space, the byte order mark, the Unicode space separators and the
\* two Unicode line terminators.  A character outside ASCII, an ASCII
\* control character other than tab, line feed, form feed and carriage return,
\* and the grave accent, which a string cannot hold, stand under the names of
\* their code points: "U+" and four to six hexadecimal digits.
WhiteSpace ==
    {" ", "\t", "\n", "\f", "\r", "U+000B", "U+00A0", "U+1680",
     "U+2000", "U+2001", "U+2002", "U+2003", "U+2004", "U+2005", "U+2006",
     "U+2007", "U+2008", "U+2009", "U+200A", "U+2028", "U+2029", "U+202F",
     "U+205F", "U+3000", "U+FEFF"}

\* [0-9A-Fa-fxX]
HexOrX == HexDigit \cup {"x", "X"}

\* [0-9A-Fa-f\s]
HexOrSpace == HexDigit \cup WhiteSpace

\* [\d.]
DigitOrDot == Digit \cup {"."}

Min(S) == CHOOSE x \in S : \A y \in S : x <= y

Max(S) == CHOOSE x \in S : \A y \in S : x >= y

\* The k-th smallest element of a finite set of integers.
Nth(S, k) == CHOOSE x \in S : Cardinality({y \in S : y < x}) = k - 1

CharAt(s, p) == IF p \in 1..Len(s) THEN s[p] ELSE ""

ToUpperChar(c) ==
    IF \E i \in 1..26 : LowerLetters[i] = c
    THEN UpperLetters[CHOOSE i \in 1..26 : LowerLetters[i] = c]
    ELSE c

\* String.prototype.toUpperCase on the texts the parsers hand it, which are
\* regular-expression captures of ASCII letters and digits.
toUpperCase(s) == [i \in 1..Len(s) |-> ToUpperChar(s[i])]

\* c.toLowerCase() === a for one character c and an ASCII character a that
\* is no capital letter.  A character that is no capital is its own
\* lower-case form, and the capitals whose lower-case form is an ASCII
\* character are A to Z and the Kelvin sign "U+212A", whose form is k.  The
\* form of "U+0130" is i followed by "U+0307" and that of any other character
\* holds no ASCII character, in whatever version of Unicode the runtime has.
LowersTo(c, a) ==
    \/ c = a
    \/ \E i \in 1..26 : UpperLetters[i] = c /\ LowerLetters[i] = a
    \/ c = "U+212A" /\ a = "k"

\* The lower-case form of text holds the ASCII word, which has no capital
\* letter, from the form of text[p] on.  Each character of the word is the
\* form of one character of text; "U+0130" can give only the last one, an i,
\* the next character of its form being "U+0307".
LowerMatchAt(text, p, word) ==
    /\ p >= 1
    /\ p + Len(word) - 1 <= Len(text)
    /\ \A i \in 1..Len(word) :
          \/ LowersTo(text[p + i - 1], word[i])
          \/ i = Len(word) /\ word[i] = "i" /\ text[p + i - 1] = "U+0130"

\* text.toLowerCase().startsWith(word)
LowerStartsWith(text, word) == LowerMatchAt(text, 1, word)

\* text.toLowerCase().endsWith(word): the form of the last character of text
\* ends the lower-case text, so "U+0130" gives no character of the word.
LowerEndsWith(text, word) ==
    /\ Len(word) <= Len(text)
    /\ \A i \in 1..Len(word) : LowersTo(text[Len(text) - Len(word) + i], word[i])

\* text.toLowerCase().includes(word)
LowerIncludes(text, word) ==
    \E p \in 1..(Len(text) - Len(word) + 1) : LowerMatchAt(text, p, word)

startsWith(s, prefix) ==
    Len(prefix) <= Len(s) /\ SubSeq(s, 1, Len(prefix)) = prefix

endsWith(s, suffix) ==
    Len(suffix) <= Len(s) /\ SubSeq(s, Len(s) - Len(suffix) + 1, Len(s)) = suffix

\* A trim that also takes leading comment markers off the text.
trimAndMarker(s) ==
    LET first == CHOOSE b \in 1..(Len(s) + 1) :
                     /\ b = Len(s) + 1 \/ s[b] \notin WhiteSpace \cup {";"}
                     /\ \A r \in 1..(b - 1) : s[r] \in WhiteSpace \cup {";"}
        last  == CHOOSE e \in 0..Len(s) :
                     /\ e = 0 \/ s[e] \notin WhiteSpace
                     /\ \A r \in (e + 1)..Len(s) : s[r] \in WhiteSpace
    IN  SubSeq(s, first, last)

\* String.prototype.trim
trim(s) ==
    LET first == CHOOSE b \in 1..(Len(s) + 1) :
                     /\ b = Len(s) + 1 \/ s[b] \notin WhiteSpace
                     /\ \A r \in 1..(b - 1) : s[r] \in WhiteSpace
        last  == CHOOSE e \in 0..Len(s) :
                     /\ e = 0 \/ s[e] \notin WhiteSpace
                     /\ \A r \in (e + 1)..Len(s) : s[r] \in WhiteSpace
    IN  SubSeq(s, first, last)

\* content.split(/\r?\n/): the pieces between newlines, a carriage return
\* directly before a newline belonging to the separator.
SplitLines(text) ==
    LET NL       == {p \in 1..Len(text) : text[p] = "\n"}
        From(k)  == IF k = 1 THEN 1 ELSE Nth(NL, k - 1) + 1
        Upto(k)  == IF k = Cardinality(NL) + 1 THEN Len(text)
                    ELSE LET n == Nth(NL, k)
                         IN  IF n - 1 >= From(k) /\ text[n - 1] = "\r"
                             THEN n - 2 ELSE n - 1
    IN  [k \in 1..(Cardinality(NL) + 1) |-> SubSeq(text, From(k), Upto(k))]

\* s.split(/\s+/).filter(Boolean): the maximal runs of non-whitespace.
SplitWhitespace(s) ==
    LET Starts == {p \in 1..Len(s) :
                     s[p] \notin WhiteSpace /\ (p = 1 \/ s[p - 1] \in WhiteSpace)}
        EndOf(p) == CHOOSE e \in p..Len(s) :
                        /\ e = Len(s) \/ s[e + 1] \in WhiteSpace
                        /\ \A r \in p..e : s[r] \notin WhiteSpace
    IN  [k \in 1..Cardinality(Starts) |->
            SubSeq(s, Nth(Starts, k), EndOf(Nth(Starts, k)))]

\* s.match(/.{1,2}/g) || []: successive chunks of two characters, the last
\* one of a single character when the length is odd.
ChunkPairs(s) ==
    [k \in 1..((Len(s) + 1) \div 2) |->
        SubSeq(s, 2 * k - 1, IF 2 * k <= Len(s) THEN 2 * k ELSE Len(s))]

(***************************************************************************)
(* Regular-expression matching.  A position is an index into the line;     *)
(* position 0 stands for "no match".  In each of the expressions below a   *)
(* quantified class is followed by an item that no character of the class  *)
(* can start (or by the end of the line, or by a class that contains it    *)
(* and runs to the end), so the greedy match is the only possible match.   *)
(***************************************************************************)

\* The position after the longest run of characters of class cls from p.
RunEnd(s, p, cls) ==
    CHOOSE e \in p..(Len(s) + 1) :
        /\ e = Len(s) + 1 \/ s[e] \notin cls
        /\ \A r \in p..(e - 1) : s[r] \in cls

\* cls*
Star(s, p, cls) == IF p = 0 \/ p > Len(s) + 1 THEN 0 ELSE RunEnd(s, p, cls)

\* cls+
Plus(s, p, cls) ==
    IF p = 0 \/ p > Len(s) THEN 0
    ELSE IF RunEnd(s, p, cls) > p THEN RunEnd(s, p, cls) ELSE 0

\* a literal character
Lit(s, p, c) == IF p # 0 /\ CharAt(s, p) = c THEN p + 1 ELSE 0

\* (?:item)? where the item ends at q (0 when it does not match)
Opt(p, q) == IF q # 0 THEN q ELSE p

\* (Rx|Tx)
RxTx(s, p) ==
    IF p # 0 /\ CharAt(s, p) \in {"R", "T"} /\ CharAt(s, p + 1) = "x" THEN p + 2 ELSE 0

\* $
AtEnd(s, p) == p # 0 /\ p = Len(s) + 1

NoMatch == [ok |-> FALSE, groups |-> <<>>]

Matched(gs) == [ok |-> TRUE, groups |-> gs]

\* The text of a capture group spanning positions from .. to - 1.
Group(s, from, to) == SubSeq(s, from, to - 1)

\* /^\s*\((\d+(?:\.\d+)?)\)\s+\w+\s+([0-9A-Fa-f]+)#([0-9A-Fa-f]*)\s*$/
LOG_REGEX(s) ==
    LET p1  == Lit(s, Star(s, 1, WhiteSpace), "(")
        p2  == Plus(s, p1, Digit)
        p3  == Opt(p2, Plus(s, Lit(s, p2, "."), Digit))
        p4  == Lit(s, p3, ")")
        p5  == Plus(s, p4, WhiteSpace)
        p6  == Plus(s, p5, WordChar)
        p7  == Plus(s, p6, WhiteSpace)
        p8  == Plus(s, p7, HexDigit)
        p9  == Lit(s, p8, "#")
        p10 == Star(s, p9, HexDigit)
        p11 == Star(s, p10, WhiteSpace)
    IN  IF AtEnd(s, p11)
        THEN Matched(<<Group(s, p1, p3), Group(s, p7, p8), Group(s, p9, p10)>>)
        ELSE NoMatch

\* /^\s*\d+\)\s+(\d+(?:\.\d+)?)\s+(Rx|Tx)\s+([0-9A-Fa-fxX]+)\s+\d+\s*([0-9A-Fa-f\s]*)$/
TRC_REGEX(s) ==
    LET p1  == Plus(s, Star(s, 1, WhiteSpace), Digit)
        p2  == Plus(s, Lit(s, p1, ")"), WhiteSpace)
        p3  == Plus(s, p2, Digit)
        p4  == Opt(p3, Plus(s, Lit(s, p3, "."), Digit))
        p5  == Plus(s, p4, WhiteSpace)
        p6  == RxTx(s, p5)
        p7  == Plus(s, p6, WhiteSpace)
        p8  == Plus(s, p7, HexOrX)
        p9  == Plus(s, p8, WhiteSpace)
        p10 == Plus(s, p9, Digit)
        p11 == Star(s, p10, WhiteSpace)
        p12 == Star(s, p11, HexOrSpace)
    IN  IF AtEnd(s, p12)
        THEN Matched(<<Group(s, p2, p4), Group(s, p5, p6), Group(s, p7, p8),
                       Group(s, p11, p12)>>)
        ELSE NoMatch

\* /^\s*\d+\s+([\d.]+)\s+\w+\s+([0-9A-Fa-fxX]+)\s+(Rx|Tx)\s+\d+\s*([0-9A-Fa-f\s]*)$/
PCAN_VIEW_REGEX(s) ==
    LET p1  == Plus(s, Star(s, 1, WhiteSpace), Digit)
        p2  == Plus(s, p1, WhiteSpace)
        p3  == Plus(s, p2, DigitOrDot)
        p4  == Plus(s, p3, WhiteSpace)
        p5  == Plus(s, p4, WordChar)
        p6  == Plus(s, p5, WhiteSpace)
        p7  == Plus(s, p6, HexOrX)
        p8  == Plus(s, p7, WhiteSpace)
        p9  == RxTx(s, p8)
        p10 == Plus(s, p9, WhiteSpace)
        p11 == Plus(s, p10, Digit)
        p12 == Star(s, p11, WhiteSpace)
        p13 == Star(s, p12, HexOrSpace)
    IN  IF AtEnd(s, p13)
        THEN Matched(<<Group(s, p2, p3), Group(s, p6, p7), Group(s, p8, p9),
                       Group(s, p12, p13)>>)
        ELSE NoMatch

\* /^\s*\d+\)\s+([\d.]+)\s+(Rx|Tx)\s+([0-9A-Fa-f]+)\s+\d+\s*([0-9A-Fa-f\s]*)$/
PCAN_V5_REGEX(s) ==
    LET p1  == Plus(s, Star(s, 1, WhiteSpace), Digit)
        p2  == Plus(s, Lit(s, p1, ")"), WhiteSpace)
        p3  == Plus(s, p2, DigitOrDot)
        p4  == Plus(s, p3, WhiteSpace)
        p5  == RxTx(s, p4)
        p6  == Plus(s, p5, WhiteSpace)
        p7  == Plus(s, p6, HexDigit)
        p8  == Plus(s, p7, WhiteSpace)
        p9  == Plus(s, p8, Digit)
        p10 == Star(s, p9, WhiteSpace)
        p11 == Star(s, p10, HexOrSpace)
    IN  IF AtEnd(s, p11)
        THEN Matched(<<Group(s, p2, p3), Group(s, p4, p5), Group(s, p6, p7),
                       Group(s, p10, p11)>>)
        ELSE NoMatch

\* /^\s*(\d+)\s+(0x[0-9A-Fa-f]+|[0-9A-Fa-f]+)\s+(\d+)\s+([0-9A-Fa-f\s]*)\s*$/
CUSTOM_FORMAT_REGEX(s) ==
    LET p0  == Star(s, 1, WhiteSpace)
        p1  == Plus(s, p0, Digit)
        p2  == Plus(s, p1, WhiteSpace)
        alt == Plus(s, Lit(s, Lit(s, p2, "0"), "x"), HexDigit)
        p3  == IF alt # 0 THEN alt ELSE Plus(s, p2, HexDigit)
        p4  == Plus(s, p3, WhiteSpace)
        p5  == Plus(s, p4, Digit)
        p6  == Plus(s, p5, WhiteSpace)
        p7  == Star(s, p6, HexOrSpace)
    IN  IF AtEnd(s, p7)
        THEN Matched(<<Group(s, p0, p1), Group(s, p2, p3), Group(s, p4, p5),
                       Group(s, p6, p7)>>)
        ELSE NoMatch

(***************************************************************************)
(* Number parsing                                                          *)
(***************************************************************************)

DigitChars == <<"0", "1", "2", "3", "4", "5", "6", "7", "8", "9", "A", "B", "C", "D", "E", "F">>

\* The value 0..15 of a hexadecimal digit, either case.
DigitValue(c) == (CHOOSE i \in 1..16 : DigitChars[i] = ToUpperChar(c)) - 1

StripLeadingZeros(ds) ==
    LET NonZero == {p \in 1..Len(ds) : ds[p] # "0"}
    IN  IF NonZero = {} THEN <<>> ELSE SubSeq(ds, Min(NonZero), Len(ds))

StripTrailingZeros(ds) ==
    LET NonZero == {p \in 1..Len(ds) : ds[p] # "0"}
    IN  IF NonZero = {} THEN <<>> ELSE SubSeq(ds, 1, Max(NonZero))

(***************************************************************************)
(* Numbers: a decimal text becomes the double nearest to it, and a double  *)
(* is known by the digits Number.prototype.toString prints for it          *)
(***************************************************************************)

\* The member of a set of one member.  TheOne({F(x) : x \in {e}}) is F of
\* the value of e, which is worked out once however often F uses x.
TheOne(S) == CHOOSE r \in S : TRUE

\* Natural numbers of any size: limbs in base 10000, least significant first,
\* no zero limb on top; <<>> is zero.
BigNorm(a) ==
    TheOne({
        LET NonZero == {i \in 1..Len(v) : v[i] # 0}
        IN  IF NonZero = {} THEN <<>> ELSE SubSeq(v, 1, Max(NonZero))
        : v \in {a}})

BigLess(a, b) ==
    TheOne({
        \/ Len(v[1]) < Len(v[2])
        \/ /\ Len(v[1]) = Len(v[2])
           /\ \E i \in 1..Len(v[1]) :
                v[1][i] < v[2][i] /\ \A j \in (i + 1)..Len(v[1]) : v[1][j] = v[2][j]
        : v \in {<<a, b>>}})

\* The limbs w[lo..hi] plus the carry c brought into 0..9999, followed by the
\* carry out; a limb of w may be any integer.
RECURSIVE Carry(_, _, _, _)
Carry(w, lo, hi, c) ==
    TheOne({
        IF r[1] = r[2]
        THEN <<(w[r[1]] + r[3]) % 10000, (w[r[1]] + r[3]) \div 10000>>
        ELSE TheOne({
                 SubSeq(low, 1, Len(low) - 1)
                 \o Carry(w, (r[1] + r[2]) \div 2 + 1, r[2], low[Len(low)])
                 : low \in {Carry(w, r[1], (r[1] + r[2]) \div 2, r[3])}})
        : r \in {<<lo, hi, c>>}})

\* The number with the limbs w, each of them any integer, when it is not
\* negative.
BigFromLimbs(w) ==
    TheOne({
        IF v = <<>> THEN <<>>
        ELSE TheOne({
                 BigNorm(SubSeq(r, 1, Len(v))
                         \o <<r[Len(r)] % 10000, (r[Len(r)] \div 10000) % 10000,
                              r[Len(r)] \div 100000000>>)
                 : r \in {Carry(v, 1, Len(v), 0)}})
        : v \in {w}})

\* a * k + c for 0 < k < 2^17 and 0 <= c < 2^17
BigMulAdd(a, k, c) ==
    TheOne({
        BigFromLimbs([i \in 1..Max({Len(v[1]), 1}) |->
                        (IF i <= Len(v[1]) THEN v[1][i] * v[2] ELSE 0)
                        + (IF i = 1 THEN v[3] ELSE 0)])
        : v \in {<<a, k, c>>}})

\* a - b for a >= b
BigSub(a, b) ==
    TheOne({
        BigFromLimbs([i \in 1..Len(v[1]) |->
                        v[1][i] - (IF i <= Len(v[2]) THEN v[2][i] ELSE 0)])
        : v \in {<<a, b>>}})

\* a * 2^n, sixteen bits at a time, as (a * 2^h) * 2^(n-h) for h about n / 2
RECURSIVE BigMulPow2(_, _)
BigMulPow2(a, n) ==
    TheOne({
        IF v[2] <= 16 THEN BigMulAdd(v[1], 2 ^ v[2], 0)
        ELSE BigMulPow2(BigMulPow2(v[1], 16 * ((v[2] \div 16 + 1) \div 2)),
                        v[2] - 16 * ((v[2] \div 16 + 1) \div 2))
        : v \in {<<a, n>>}})

\* a * 10^n
BigMulPow10(a, n) ==
    TheOne({
        IF v[1] = <<>> THEN <<>>
        ELSE [i \in 1..(v[2] \div 4) |-> 0] \o BigMulAdd(v[1], 10 ^ (v[2] % 4), 0)
        : v \in {<<a, n>>}})

\* The number a text of decimal digits writes.
BigFromDigits(digits) ==
    TheOne({
        LET DigitFromRight(r) == IF r < Len(ds) THEN DigitValue(ds[Len(ds) - r]) ELSE 0
        IN  BigNorm([i \in 1..((Len(ds) + 3) \div 4) |->
                       DigitFromRight(4 * i - 4) + 10 * DigitFromRight(4 * i - 3)
                       + 100 * DigitFromRight(4 * i - 2) + 1000 * DigitFromRight(4 * i - 1)])
        : ds \in {digits}})

\* The decimal digits of a number, none for zero.
BigToDigits(limbs) ==
    TheOne({
        StripLeadingZeros(
            [p \in 1..(4 * Len(a)) |->
                DigitChars[((a[Len(a) - ((p - 1) \div 4)] \div (10 ^ (3 - ((p - 1) % 4)))) % 10) + 1]])
        : a \in {limbs}})

\* The quotient of x by y > 0, as i + 1 decimal digits, followed by the
\* remainder, for x < y * 10^(i+1).
RECURSIVE BigDivMod(_, _, _)
BigDivMod(x, y, i) ==
    TheOne({
    TheOne({
        IF v[3] = 0
        THEN <<DigitChars[d + 1], IF d = 0 THEN v[1] ELSE BigSub(v[1], BigMulAdd(v[2], d, 0))>>
        ELSE <<DigitChars[d + 1]>>
             \o BigDivMod(IF d = 0 THEN v[1] ELSE BigSub(v[1], BigMulAdd(v[2], d, 0)), y, v[3] - 1)
        : d \in {Max({0} \cup {k \in 1..9 : ~BigLess(v[1], BigMulAdd(v[2], k, 0))})}})
        : v \in {<<x, BigMulPow10(y, i), i>>}})

Quotient(dm) == BigFromDigits(SubSeq(dm, 1, Len(dm) - 1))

Remainder(dm) == dm[Len(dm)]

\* x / y written as (x' / y') * 2^e with 2^52 <= x' / y' < 2^53, or with
\* x' / y' < 2^52 and e = -1074, the exponent of the subnormal doubles.
RECURSIVE BinaryScale(_, _, _)
BinaryScale(x, y, e) ==
    TheOne({
        IF ~BigLess(v[1], BigMulPow2(v[2], 53))
        THEN BinaryScale(v[1], BigMulAdd(v[2], 2, 0), v[3] + 1)
        ELSE IF v[3] > -1074 /\ BigLess(v[1], BigMulPow2(v[2], 52))
             THEN BinaryScale(BigMulAdd(v[1], 2, 0), v[2], v[3] - 1)
        ELSE [x |-> v[1], y |-> v[2], e |-> v[3]]
        : v \in {<<x, y, e>>}})

\* The double nearest to n / 10^f for n > 0, ties to the even significand:
\* significand m < 2^53 and exponent e >= -1074, the value being m * 2^e,
\* with m >= 2^52 unless the double is subnormal (e = -1074) or zero.  An
\* exponent above 971 is beyond the largest double.  nV is the count of digits
\* of n / 10^f before the point, or minus the count of zeros after it, from
\* which the search for e starts.
NearestDouble(n, f, nV) ==
    TheOne({
    TheOne({
    TheOne({
    TheOne({
    TheOne({
    TheOne({
        IF m = BigMulPow2(<<1>>, 53) THEN [m |-> BigMulPow2(<<1>>, 52), e |-> s.e + 1]
        ELSE [m |-> m, e |-> s.e]
        : m \in {
         IF BigLess(s.y, r2) \/ (r2 = s.y /\ q # <<>> /\ q[1] % 2 = 1)
         THEN BigMulAdd(q, 1, 1) ELSE q}})
        : r2 \in {BigMulAdd(Remainder(dm), 2, 0)}})
        : q \in {Quotient(dm)}})
        : dm \in {BigDivMod(s.x, s.y, 15)}})
        : s \in {
         BinaryScale(BigMulPow2(n, IF e0 < 0 THEN 0 - e0 ELSE 0),
                     BigMulPow2(BigMulPow10(<<1>>, f), IF e0 > 0 THEN e0 ELSE 0),
                     e0)}})
        : e0 \in {Max({((nV - 1) * 33219) \div 10000 - 53, -1074})}})

\* The k-digit decimals next to the double v / D, in quarters of the gap
\* between doubles: whether the one below or the one above rounds to that
\* double (lo and hi being half the gap below and above, the ends of the
\* range counting when the significand is even), and the nearer of those that
\* do, as a number c and an exponent p, the decimal being c * 10^p.
DecimalOfDigits(v, D, lo, hi, even, n, k) ==
    TheOne({
    TheOne({
    TheOne({
    TheOne({
    TheOne({
    TheOne({
    TheOne({
    TheOne({
    TheOne({
    TheOne({
        LET ceilNearer == \/ BigLess(gap, rem)
                          \/ gap = rem /\ c # <<>> /\ c[1] % 2 = 1
        IN  [ok |-> floorIn \/ ceilIn,
             c  |-> IF ceilIn /\ (~floorIn \/ ceilNearer) THEN BigMulAdd(c, 1, 1) ELSE c,
             p  |-> p]
        : ceilIn \in {IF even THEN ~BigLess(above, gap) ELSE BigLess(gap, above)}})
        : floorIn \in {IF even THEN ~BigLess(below, rem) ELSE BigLess(rem, below)}})
        : above \in {IF p >= 0 THEN hi ELSE BigMulPow10(hi, 0 - p)}})
        : below \in {IF p >= 0 THEN lo ELSE BigMulPow10(lo, 0 - p)}})
        : gap \in {BigSub(G, rem)}})
        : rem \in {Remainder(dm)}})
        : c \in {Quotient(dm)}})
        : dm \in {BigDivMod(IF p >= 0 THEN v ELSE BigMulPow10(v, 0 - p), G, 16)}})
        : G \in {IF p >= 0 THEN BigMulPow10(D, p) ELSE D}})
        : p \in {n - k}})

\* Number.prototype.toString: the shortest decimal whose nearest double is
\* d > 0, the one closest to d when several are as short.  nV is the count of
\* digits before the point in the text d came from, or minus the count of
\* zeros after it.
ShortestDecimal(d, nV) ==
    TheOne({
    TheOne({
    TheOne({
    TheOne({
    TheOne({
        LET AtLeast10(j) == IF j >= 0 THEN ~BigLess(v, BigMulPow10(D, j))
                            ELSE ~BigLess(BigMulPow10(v, 0 - j), D)
        IN  \* 10^(n-1) <= d < 10^n
            TheOne({TheOne({try[Min({k \in 1..17 : try[k].ok})] : try \in {[k \in 1..17 |-> DecimalOfDigits(v, D, lo, hi, d.m[1] % 2 = 0, n, k)]}})
                : n \in {
                 IF AtLeast10(nV) THEN nV + 1
                 ELSE IF AtLeast10(nV - 1) THEN nV ELSE nV - 1}})
        : lo \in {
         IF d.m = BigMulPow2(<<1>>, 52) /\ d.e > -1074
         THEN BigMulPow2(<<1>>, up2) ELSE hi}})
        : hi \in {BigMulPow2(<<1>>, up2 + 1)}})
        : D \in {BigMulPow2(<<1>>, IF d.e >= 2 THEN 0 ELSE 2 - d.e)}})
        : v \in {BigMulPow2(d.m, up2 + 2)}})
        : up2 \in {IF d.e >= 2 THEN d.e - 2 ELSE 0}})

\* The decimal c * 10^p as the digits before and after the point.
Positional(c, p) ==
    LET ds == BigToDigits(c)
    IN  IF p >= 0 THEN [ip |-> ds \o [i \in 1..p |-> "0"], fp |-> <<>>]
        ELSE LET padded == [i \in 1..(0 - p - Len(ds)) |-> "0"] \o ds
                 point  == Len(padded) + p
             IN  [ip |-> StripLeadingZeros(SubSeq(padded, 1, point)),
                  fp |-> StripTrailingZeros(SubSeq(padded, point + 1, Len(padded)))]


NaN == [nan |-> TRUE, ip |-> <<>>, fp |-> <<>>]

\* What parseFloat and parseInt return for a text beyond the largest double.
Infinity == [nan |-> FALSE, ip |-> <<"I", "n", "f", "i", "n", "i", "t", "y">>, fp |-> <<>>]

\* The Number a text of digits, ip before the point and fp after it, denotes:
\* the double nearest to it.  A text of 10^309 or more is Infinity and one
\* below 10^-324 is 0.  A text of at most 15 significant digits between 10^-307
\* and 10^308 is the shortest decimal of its own double, so its digits are
\* kept.
Decimal(ip, fp) ==
    TheOne({
    TheOne({
    TheOne({
        IF i = <<>> /\ f = <<>> THEN [nan |-> FALSE, ip |-> <<>>, fp |-> <<>>]
        ELSE IF nV > 309 THEN Infinity
        ELSE IF nV < -323 THEN [nan |-> FALSE, ip |-> <<>>, fp |-> <<>>]
        ELSE IF /\ Len(StripTrailingZeros(StripLeadingZeros(i \o f))) <= 15
                /\ nV >= -306
                /\ nV <= 308
        THEN [nan |-> FALSE, ip |-> i, fp |-> f]
        ELSE TheOne({
             IF d.e > 971 THEN Infinity
             ELSE IF d.m = <<>> THEN [nan |-> FALSE, ip |-> <<>>, fp |-> <<>>]
             ELSE TheOne({TheOne({[nan |-> FALSE, ip |-> r.ip, fp |-> r.fp] : r \in {Positional(s.c, s.p)}}) : s \in {ShortestDecimal(d, nV)}})
                 : d \in {NearestDouble(BigFromDigits(i \o f), Len(f), nV)}})
        : nV \in {IF i # <<>> THEN Len(i) ELSE Len(StripLeadingZeros(f)) - Len(f)}})
        : f \in {StripTrailingZeros(fp)}})
        : i \in {StripLeadingZeros(ip)}})

\* parseFloat(s) for a text of digits and dots: the longest prefix of the form
\* digits, digits.digits, digits. or .digits; NaN when it holds no digit.
parseFloat(s) ==
    LET e1 == RunEnd(s, 1, Digit)
        e2 == IF CharAt(s, e1) = "." THEN RunEnd(s, e1 + 1, Digit) ELSE e1
        ip == SubSeq(s, 1, e1 - 1)
        fp == IF e2 > e1 THEN SubSeq(s, e1 + 1, e2 - 1) ELSE <<>>
    IN  IF ip = <<>> /\ fp = <<>> THEN NaN ELSE Decimal(ip, fp)

\* parseInt(s, 10) for a text of one or more digits, which is what the
\* patterns capture: the double nearest to the number the digits write.
parseInt10(s) == Decimal(s, <<>>)

\* The Number that holds the count n, as array.length does.
NatNumber(n) ==
    LET k == IF n >= 10^9 THEN 10 ELSE Min({j \in 0..9 : n < 10^j})
    IN  [nan |-> FALSE,
         ip  |-> [p \in 1..k |-> DigitChars[((n \div 10^(k - p)) % 10) + 1]],
         fp  |-> <<>>]

(***************************************************************************)
(* The line recognizers                                                    *)
(***************************************************************************)

Null == [null |-> TRUE]

\* null in a variable that otherwise holds a text.  It is a sequence, as a
\* text is, and it is no text: its one element is not a single character.
NoText == <<"null">>

Frame(timestamp, id, dlc, bytes, isTx) ==
    [timestamp |-> timestamp, id |-> id, dlc |-> dlc, data |-> bytes, isTx |-> isTx]

Prefix0x == <<"0", "x">>

UpperEach(tokens) == [k \in 1..Len(tokens) |-> toUpperCase(tokens[k])]

parseCustomFormatLine(line) ==
    LET match     == CUSTOM_FORMAT_REGEX(line)
        id        == match.groups[2]
        tokens    == SplitWhitespace(trim(match.groups[4]))
        parsedId  == IF LowerStartsWith(id, Prefix0x) THEN id ELSE Prefix0x \o id
    IN  IF \/ LowerIncludes(line, <<"t", "i", "m", "e", "s", "t", "a", "m", "p">>)
           \/ LowerIncludes(line, <<"c", "a", "n", "_", "i", "d">>)
           \/ LowerIncludes(line, <<"d", "a", "t", "a", "(", "h", "e", "x", ")">>)
        THEN Null
        ELSE IF ~match.ok THEN Null
        ELSE Frame(parseInt10(match.groups[1]),
                   toUpperCase(parsedId),
                   parseInt10(match.groups[3]),
                   UpperEach(tokens),
                   FALSE)

parseLogLine(line) ==
    LET match  == LOG_REGEX(line)
        id     == match.groups[2]
        tokens == ChunkPairs(match.groups[3])
    IN  IF ~match.ok THEN Null
        ELSE Frame(parseFloat(match.groups[1]),
                   Prefix0x \o toUpperCase(id),
                   NatNumber(Len(tokens)),
                   UpperEach(tokens),
                   FALSE)

\* A recognizer of the same shape that reports every frame as received.
parseTrcLineNoDirection(line) ==
    LET match  == TRC_REGEX(trim(line))
        id     == match.groups[3]
        tokens == SplitWhitespace(trim(match.groups[4]))
    IN  IF ~match.ok THEN Null
        ELSE Frame(parseFloat(match.groups[1]),
                   IF startsWith(id, Prefix0x) THEN toUpperCase(id)
                                               ELSE Prefix0x \o toUpperCase(id),
                   NatNumber(Len(tokens)),
                   UpperEach(tokens),
                   FALSE)

parseTrcLine(line) ==
    LET match  == TRC_REGEX(trim(line))
        id     == match.groups[3]
        tokens == SplitWhitespace(trim(match.groups[4]))
    IN  IF ~match.ok THEN Null
        ELSE Frame(parseFloat(match.groups[1]),
                   IF startsWith(id, Prefix0x) THEN toUpperCase(id)
                                               ELSE Prefix0x \o toUpperCase(id),
                   NatNumber(Len(tokens)),
                   UpperEach(tokens),
                   match.groups[2] = <<"T", "x">>)

parsePcanViewLine(line) ==
    LET trimmedLine == trim(line)
        match  == PCAN_VIEW_REGEX(trimmedLine)
        id     == match.groups[2]
        tokens == SplitWhitespace(trim(match.groups[4]))
    IN  IF startsWith(trimmedLine, <<";">>) THEN Null
        ELSE IF ~match.ok THEN Null
        ELSE Frame(parseFloat(match.groups[1]),
                   IF startsWith(id, Prefix0x) THEN toUpperCase(id)
                                               ELSE Prefix0x \o toUpperCase(id),
                   NatNumber(Len(tokens)),
                   UpperEach(tokens),
                   match.groups[3] = <<"T", "x">>)

parsePcanV5Line(line) ==
    LET match  == PCAN_V5_REGEX(line)
        id     == match.groups[3]
        tokens == SplitWhitespace(trim(match.groups[4]))
    IN  IF ~match.ok THEN Null
        ELSE Frame(parseFloat(match.groups[1]),
                   Prefix0x \o toUpperCase(id),
                   NatNumber(Len(tokens)),
                   UpperEach(tokens),
                   match.groups[2] = <<"T", "x">>)

\* The recognizers by name.
Recognize(parser, line) ==
    CASE parser = "parseCustomFormatLine" -> parseCustomFormatLine(line)
      [] parser = "parseLogLine"          -> parseLogLine(line)
      [] parser = "parsePcanV5Line"       -> parsePcanV5Line(line)
      [] parser = "parseTrcLine"          -> parseTrcLine(line)
      [] parser = "parsePcanViewLine"     -> parsePcanViewLine(line)

\* The repository holds two versions of the parser module: the one of
\* src/services/canParser.ts with four recognizers and the one of
\* src/unnamed/part_002 that puts parseCustomFormatLine in front of both lists.
Builds == {"canParser", "part_002"}

logParsers(b) ==
    IF b = "part_002"
    THEN <<"parseCustomFormatLine", "parseLogLine", "parsePcanV5Line", "parseTrcLine",
           "parsePcanViewLine">>
    ELSE <<"parseLogLine", "parsePcanV5Line", "parseTrcLine", "parsePcanViewLine">>

\* A trace-first order that leaves the candump recognizer out.
trcParsersWithoutLog(b) ==
    IF b = "part_002"
    THEN <<"parseCustomFormatLine", "parsePcanV5Line", "parseTrcLine", "parsePcanViewLine">>
    ELSE <<"parsePcanV5Line", "parseTrcLine", "parsePcanViewLine">>

trcParsers(b) ==
    IF b = "part_002"
    THEN <<"parseCustomFormatLine", "parsePcanV5Line", "parseTrcLine", "parsePcanViewLine",
           "parseLogLine">>
    ELSE <<"parsePcanV5Line", "parseTrcLine", "parsePcanViewLine", "parseLogLine">>

\* let DEFAULT_PARSER_FOR_UNKNOWN_TYPES = 'log'
DEFAULT_PARSER_FOR_UNKNOWN_TYPES == "log"

\* A choice of the recognizer order that compares the file name as written.
SelectParsersCaseSensitive(b, name) ==
    IF endsWith(name, <<".", "l", "o", "g">>) THEN logParsers(b)
    ELSE IF endsWith(name, <<".", "t", "r", "c">>) THEN trcParsers(b)
    ELSE logParsers(b)

\* A choice that keeps only the first recognizer of the order.
SelectParsersPrimaryOnly(b, name) ==
    LET default == IF DEFAULT_PARSER_FOR_UNKNOWN_TYPES = "log"
                   THEN logParsers(b) ELSE trcParsers(b)
        order == IF LowerEndsWith(name, <<".", "l", "o", "g">>) THEN logParsers(b)
                 ELSE IF LowerEndsWith(name, <<".", "t", "r", "c">>) THEN trcParsers(b)
                 ELSE default
    IN  <<order[1]>>

\* The recognizer order parseCanLogFile chooses from the file name.
SelectParsers(b, name) ==
    LET default == IF DEFAULT_PARSER_FOR_UNKNOWN_TYPES = "log"
                   THEN logParsers(b) ELSE trcParsers(b)
    IN  IF LowerEndsWith(name, <<".", "l", "o", "g">>) THEN logParsers(b)
        ELSE IF LowerEndsWith(name, <<".", "t", "r", "c">>) THEN trcParsers(b)
        ELSE default

(***************************************************************************)
(* decodeMessages                                                          *)
(***************************************************************************)

\* The number a text of hexadecimal digits writes, as the high half of the
\* text times a power of 16 plus the low half.
RECURSIVE BigFromHex(_)
BigFromHex(digits) ==
    TheOne({
        IF Len(ds) <= 3
        THEN LET H(i) == IF i <= Len(ds) THEN DigitValue(ds[i]) * 16^(Len(ds) - i) ELSE 0
             IN  BigNorm(<<H(1) + H(2) + H(3)>>)
        ELSE TheOne({
                 BigFromLimbs([i \in 1..Max({Len(hl[1]), Len(hl[2]), 1}) |->
                                 (IF i <= Len(hl[1]) THEN hl[1][i] ELSE 0)
                                 + (IF i <= Len(hl[2]) THEN hl[2][i] ELSE 0)])
                 : hl \in {<<BigMulPow2(BigFromHex(SubSeq(ds, 1, Len(ds) \div 2)),
                                        4 * (Len(ds) - Len(ds) \div 2)),
                             BigFromHex(SubSeq(ds, Len(ds) \div 2 + 1, Len(ds)))>>}})
        : ds \in {digits}})

\* The value of a text of hexadecimal digits, as a double: the double
\* nearest to the number the digits write.  Seven digits write a number below
\* 2^28, which is its own double.
HexValue(ds) ==
    TheOne({
        IF Len(h) <= 7
        THEN LET D(r) == IF r <= Len(h) THEN DigitValue(h[Len(h) + 1 - r]) ELSE 0
             IN  NatNumber(D(1) + 16 * D(2) + 16^2 * D(3) + 16^3 * D(4) + 16^4 * D(5)
                           + 16^5 * D(6) + 16^6 * D(7))
        ELSE Decimal(BigToDigits(BigFromHex(h)), <<>>)
        : h \in {StripLeadingZeros(ds)}})

\* parseInt(s, 16): leading whitespace is skipped, then one sign, then a 0x
\* or 0X prefix; the longest run of hexadecimal digits that follows is the
\* magnitude, a minus sign negates it, and the result is NaN when that run is
\* empty.  The result is a number record [nan, neg, ip, fp]; zero has no
\* sign.
parseInt16(s) ==
    LET p0 == RunEnd(s, 1, WhiteSpace)
        ps == IF CharAt(s, p0) \in {"+", "-"} THEN p0 + 1 ELSE p0
        p1 == IF CharAt(s, ps) = "0" /\ CharAt(s, ps + 1) \in {"x", "X"}
              THEN ps + 2 ELSE ps
        p2 == RunEnd(s, p1, HexDigit)
    IN  IF p2 = p1 THEN [nan |-> TRUE, neg |-> FALSE, ip |-> <<>>, fp |-> <<>>]
        ELSE TheOne({
                 [nan |-> FALSE,
                  neg |-> CharAt(s, p0) = "-" /\ Z.ip # <<>>,
                  ip  |-> Z.ip,
                  fp  |-> Z.fp]
                 : Z \in {HexValue(SubSeq(s, p1, p2 - 1))}})

\* Number.prototype.toString() of the result of parseInt, a double that
\* holds an integer: its digits, and from 10^21 on the first digit, the
\* point, the other digits up to the last that is not zero, and the
\* exponent.
toString(n) ==
    IF n.nan THEN <<"N", "a", "N">>
    ELSE (IF n.neg THEN <<"-">> ELSE <<>>)
         \o (IF n.ip = <<>> THEN <<"0">>
             ELSE IF n.ip = Infinity.ip \/ Len(n.ip) <= 21 THEN n.ip
             ELSE LET ds == StripTrailingZeros(n.ip)
                  IN  <<ds[1]>>
                      \o (IF Len(ds) > 1 THEN <<".">> \o SubSeq(ds, 2, Len(ds)) ELSE <<>>)
                      \o <<"e", "+">> \o NatNumber(Len(n.ip) - 1).ip)

\* parseInt(message.id, 16).toString()
MessageKey(message) == toString(parseInt16(message.id))

\* a modulo 256 (10000 is 16 modulo 256 and 10000^2 is 0)
Low8(a) ==
    ((IF Len(a) >= 1 THEN a[1] ELSE 0) + 16 * (IF Len(a) >= 2 THEN a[2] ELSE 0)) % 256

\* An element of new Uint8Array([...]) for a double that holds an integer:
\* the integer modulo 256, 0 for NaN and for Infinity.  Below 2^53 the
\* digits of the double write the integer, and its last eight digits decide
\* (10^8 is a multiple of 256); from there on the integer is the significand
\* times a power of two.
ToUint8(n) ==
    IF n.nan \/ n.ip = Infinity.ip THEN 0
    ELSE TheOne({
            IF n.neg THEN (256 - low) % 256 ELSE low
            : low \in {
             IF Len(n.ip) <= 15
             THEN LET D(r) == IF r <= Len(n.ip) THEN DigitValue(n.ip[Len(n.ip) + 1 - r])
                              ELSE 0
                  IN  (D(1) + 10 * D(2) + 10^2 * D(3) + 10^3 * D(4) + 10^4 * D(5)
                       + 10^5 * D(6) + 10^6 * D(7) + 10^7 * D(8)) % 256
             ELSE TheOne({
                     IF BigLess(v, BigMulPow2(<<1>>, 53)) THEN Low8(v)
                     ELSE TheOne({
                              IF d.e >= 8 THEN 0 ELSE (Low8(d.m) * 2^d.e) % 256
                              : d \in {NearestDouble(v, 0, Len(n.ip))}})
                     : v \in {BigFromDigits(n.ip)}})}})

\* new Uint8Array(message.data.map(hex => parseInt(hex, 16)))
DataBytes(message) ==
    [k \in 1..Len(message.data) |-> ToUint8(parseInt16(message.data[k]))]

\* 10^10 as a double.
TenToTen == NumMul(Num(10^6), 10^4)

\* The number of decimal digits of a double holding an integer n >= 10^10,
\* less 10.
RECURSIVE ExcessDigits(_)
ExcessDigits(n) == IF NumLess(n, TenToTen) THEN 0 ELSE 1 + ExcessDigits(NumDiv10(n))

\* floor(n / 10^k)
RECURSIVE DivPow10(_, _)
DivPow10(n, k) == IF k = 0 THEN n ELSE DivPow10(NumDiv10(n), k - 1)

\* n * 10^k
RECURSIVE MulPow10(_, _)
MulPow10(n, k) == IF k = 0 THEN n ELSE MulPow10(NumMul(n, 10), k - 1)

\* parseFloat(value.toPrecision(10)) for a double holding an integer: the
\* value itself below 10^10 in magnitude, else the value rounded to 10
\* significant digits, halves away from zero.
ToPrecision10(v) ==
    LET a == NumAbs(v)
        k == ExcessDigits(a)
        r == MulPow10(DivPow10(NumAdd(a, MulPow10(Num(5), k - 1)), k), k)
    IN  IF k = 0 THEN v
        ELSE IF v.hi < 0 THEN NumNeg(r) ELSE r

\* The property key that names the prototype of an object.
ProtoKey == <<"_", "_", "p", "r", "o", "t", "o", "_", "_">>

\* The keys of a SignalDefinition, in the order of the object literal.
SignalFields ==
    << <<"n", "a", "m", "e">>,
       <<"s", "t", "a", "r", "t", "B", "i", "t">>,
       <<"l", "e", "n", "g", "t", "h">>,
       <<"i", "s", "L", "i", "t", "t", "l", "e", "E", "n", "d", "i", "a", "n">>,
       <<"i", "s", "S", "i", "g", "n", "e", "d">>,
       <<"s", "c", "a", "l", "e">>,
       <<"o", "f", "f", "s", "e", "t">>,
       <<"m", "i", "n">>,
       <<"m", "a", "x">>,
       <<"u", "n", "i", "t">> >>

\* The keys for...in visits after the own keys of a signal mapping: those of
\* its prototype, when that is a signal, that no own key hides.
InheritedKeys(signals) ==
    IF signals.proto = Null THEN {}
    ELSE {SignalFields[f] : f \in 1..Len(SignalFields)}
             \ {signals.own[i].key : i \in 1..Len(signals.own)}

\* The object decodedSignals after the loop "for (signalName in
\* definition.signals)".  The loop visits the own keys in property order and
\* then the inherited ones.  Under an own key decodedSignals[signal.name] gets
\* the value of the signal, the last signal of a name being the one that
\* stays; the name __proto__ stores nothing, a number being no prototype.
\* Under an inherited key the value read is a field of the prototype, whose
\* name is undefined and whose extraction is NaN: decodedSignals holds NaN
\* under the key "undefined".
DecodedSignals(dataBytes, definition) ==
    LET sigs  == definition.signals.own
        names == {sigs[i].def.name : i \in 1..Len(sigs)} \ {ProtoKey}
        LastOf(n) == Max({i \in 1..Len(sigs) : sigs[i].def.name = n})
        undefinedKeys == IF InheritedKeys(definition.signals) = {} THEN {}
                         ELSE {<<"u", "n", "d", "e", "f", "i", "n", "e", "d">>}
    IN  [n \in names \cup undefinedKeys |->
            IF n \in undefinedKeys THEN [nan |-> TRUE]
            ELSE ToPrecision10(extractSignalValue(dataBytes, sigs[LastOf(n)].def))]

\* { ...message, decoded: decodedSignals }
WithDecoded(message, decodedSignals) ==
    [f \in DOMAIN message \cup {"decoded"} |->
        IF f = "decoded" THEN decodedSignals ELSE message[f]]

\* A callback that takes the mapping off a frame that already carries one.
DecodeOneToggle(message, mx) ==
    LET messageId == MessageKey(message)
    IN  IF messageId \notin DOMAIN mx
        THEN message
        ELSE IF "decoded" \in DOMAIN message
        THEN [f \in DOMAIN message \ {"decoded"} |-> message[f]]
        ELSE WithDecoded(message, DecodedSignals(DataBytes(message), mx[messageId]))

\* The callback of messages.map in decodeMessages.
DecodeOne(message, mx) ==
    LET messageId == MessageKey(message)
    IN  IF messageId \notin DOMAIN mx
        THEN message
        ELSE WithDecoded(message, DecodedSignals(DataBytes(message), mx[messageId]))

(***************************************************************************)
(* parseDbcFile: the patterns and the records built from their groups      *)
(***************************************************************************)

\* [\d.-]
DigitDotMinus == Digit \cup {".", "-"}

\* . (any character but a line terminator)
LineTerminator == {"\n", "\r", "U+2028", "U+2029"}

\* content.split('\n')
SplitNewline(text) ==
    LET NL       == {p \in 1..Len(text) : text[p] = "\n"}
        From(k)  == IF k = 1 THEN 1 ELSE Nth(NL, k - 1) + 1
        Upto(k)  == IF k = Cardinality(NL) + 1 THEN Len(text) ELSE Nth(NL, k) - 1
    IN  [k \in 1..(Cardinality(NL) + 1) |-> SubSeq(text, From(k), Upto(k))]

\* /^BO_\s+(\d+)\s+(\w+)\s*:\s*(\d+)\s+(.+)/
\* The last two items match when some character that is no line terminator
\* follows one or more whitespace characters.
MESSAGE_REGEX(s) ==
    LET p1 == Lit(s, Lit(s, Lit(s, 1, "B"), "O"), "_")
        p2 == Plus(s, p1, WhiteSpace)
        p3 == Plus(s, p2, Digit)
        p4 == Plus(s, p3, WhiteSpace)
        p5 == Plus(s, p4, WordChar)
        p6 == Lit(s, Star(s, p5, WhiteSpace), ":")
        p7 == Star(s, p6, WhiteSpace)
        p8 == Plus(s, p7, Digit)
        p9 == Plus(s, p8, WhiteSpace)
    IN  IF p9 # 0 /\ \E k \in (p8 + 1)..Min({p9, Len(s)}) : s[k] \notin LineTerminator
        THEN Matched(<<Group(s, p2, p3), Group(s, p4, p5), Group(s, p7, p8)>>)
        ELSE NoMatch

\* The text of an optional capture group that took no part in the match.
Undefined == <<"u", "n", "d", "e", "f", "i", "n", "e", "d">>

\* /^\s*SG_\s+(\w+)\s*:\s*(\d+)\|(\d+)@(\d+)([+-])\s+\(([\d.-]+),([\d.-]+)\)
\*   (?:\s+\[([\d.-]+)\|([\d.-]+)\])?\s+"([^"]*)"/
\* hasRange tells whether the optional group matched; groups 8 and 9 are
\* defined only then.
SIGNAL_REGEX(s) ==
    LET p1  == Lit(s, Lit(s, Lit(s, Star(s, 1, WhiteSpace), "S"), "G"), "_")
        p2  == Plus(s, p1, WhiteSpace)
        p3  == Plus(s, p2, WordChar)
        p4  == Star(s, Lit(s, Star(s, p3, WhiteSpace), ":"), WhiteSpace)
        p5  == Plus(s, p4, Digit)
        p6  == Lit(s, p5, "|")
        p7  == Plus(s, p6, Digit)
        p8  == Lit(s, p7, "@")
        p9  == Plus(s, p8, Digit)
        p10 == IF p9 # 0 /\ CharAt(s, p9) \in {"+", "-"} THEN p9 + 1 ELSE 0
        p11 == Lit(s, Plus(s, p10, WhiteSpace), "(")
        p12 == Plus(s, p11, DigitDotMinus)
        p13 == Lit(s, p12, ",")
        p14 == Plus(s, p13, DigitDotMinus)
        p15 == Lit(s, p14, ")")
        r1  == Lit(s, Plus(s, p15, WhiteSpace), "[")
        r2  == Plus(s, r1, DigitDotMinus)
        r3  == Lit(s, r2, "|")
        r4  == Plus(s, r3, DigitDotMinus)
        r5  == Lit(s, r4, "]")
        p16 == Opt(p15, r5)
        p17 == Lit(s, Plus(s, p16, WhiteSpace), "\"")
        p18 == Star(s, p17, {CharAt(s, k) : k \in 1..Len(s)} \ {"\""})
        p19 == Lit(s, p18, "\"")
    IN  IF p19 # 0
        THEN [ok |-> TRUE,
              hasRange |-> r5 # 0,
              groups |-> <<Group(s, p2, p3), Group(s, p4, p5), Group(s, p6, p7),
                           Group(s, p8, p9), Group(s, p9, p10), Group(s, p11, p12),
                           Group(s, p13, p14),
                           IF r5 # 0 THEN Group(s, r1, r2) ELSE Undefined,
                           IF r5 # 0 THEN Group(s, r3, r4) ELSE Undefined,
                           Group(s, p17, p18)>>]
        ELSE [ok |-> FALSE, hasRange |-> FALSE, groups |-> <<>>]

\* parseFloat(s) for a text of digits, dots and minus signs: an optional
\* leading minus sign, then as parseFloat above.  A number is the record
\* [nan, neg, ip, fp]; zero has no sign.
parseFloatSigned(s) ==
    LET neg == CharAt(s, 1) = "-"
        abs == parseFloat(IF neg THEN SubSeq(s, 2, Len(s)) ELSE s)
    IN  [nan |-> abs.nan,
         neg |-> neg /\ ~abs.nan /\ (abs.ip # <<>> \/ abs.fp # <<>>),
         ip  |-> abs.ip,
         fp  |-> abs.fp]

\* The number 0.
Zero == [nan |-> FALSE, neg |-> FALSE, ip |-> <<>>, fp |-> <<>>]

\* A SignalDefinition whose min and max are read from the groups as they
\* are, without a default for an absent range.
DbcSignalNoDefault(match) ==
    LET g == match.groups
    IN  [name           |-> g[1],
         startBit       |-> parseInt10(g[2]),
         length         |-> parseInt10(g[3]),
         isLittleEndian |-> parseInt10(g[4]) = NatNumber(1),
         isSigned       |-> g[5] = <<"-">>,
         scale          |-> parseFloatSigned(g[6]),
         offset         |-> parseFloatSigned(g[7]),
         min            |-> parseFloatSigned(g[8]),
         max            |-> parseFloatSigned(g[9]),
         unit           |-> g[10]]

\* The SignalDefinition built from the groups of a signal match.
DbcSignal(match) ==
    LET g == match.groups
    IN  [name           |-> g[1],
         startBit       |-> parseInt10(g[2]),
         length         |-> parseInt10(g[3]),
         isLittleEndian |-> parseInt10(g[4]) = NatNumber(1),
         isSigned       |-> g[5] = <<"-">>,
         scale          |-> parseFloatSigned(g[6]),
         offset         |-> parseFloatSigned(g[7]),
         min            |-> parseFloatSigned(IF match.hasRange THEN g[8] ELSE <<"0">>),
         max            |-> parseFloatSigned(IF match.hasRange THEN g[9] ELSE <<"0">>),
         unit           |-> g[10]]

\* {}: an object without own properties whose prototype has no enumerable
\* property.  A signal mapping is an object: own, its own properties in the
\* order for...in visits them, each a key and the signal under it, and proto,
\* Null or the signal that an assignment to __proto__ made its prototype.
EmptyObject == [own |-> <<>>, proto |-> Null]

\* The MessageDefinition built from the groups of a message match, with an
\* empty signal mapping.
DbcMessage(match) ==
    [name |-> match.groups[2], dlc |-> parseInt10(match.groups[3]), signals |-> EmptyObject]

\* An array index: the decimal text, without leading zeros, of an integer
\* below 2^32 - 1.
IsArrayIndex(key) ==
    /\ key # <<>>
    /\ \A i \in 1..Len(key) : key[i] \in Digit
    /\ key[1] # "0" \/ Len(key) = 1
    /\ \/ Len(key) < 10
       \/ /\ Len(key) = 10
          /\ ~\E i \in 1..10 :
                /\ DigitValue(key[i]) > DigitValue(<<"4", "2", "9", "4", "9", "6", "7", "2", "9", "4">>[i])
                /\ \A j \in 1..(i - 1) :
                      key[j] = <<"4", "2", "9", "4", "9", "6", "7", "2", "9", "4">>[j]

\* a < b for two array indices
IndexLess(a, b) ==
    \/ Len(a) < Len(b)
    \/ /\ Len(a) = Len(b)
       /\ \E i \in 1..Len(a) :
            /\ DigitValue(a[i]) < DigitValue(b[i])
            /\ \A j \in 1..(i - 1) : a[j] = b[j]

\* The own properties after a key is given a value: an existing key keeps
\* its place, a new array index goes among the array indices, which come
\* first in ascending order, and any other new key goes to the end.
SetOwn(own, key, value) ==
    IF \E i \in 1..Len(own) : own[i].key = key
    THEN [i \in 1..Len(own) |->
            IF own[i].key = key THEN [key |-> key, def |-> value] ELSE own[i]]
    ELSE IF IsArrayIndex(key)
    THEN LET before == Cardinality({i \in 1..Len(own) :
                           IsArrayIndex(own[i].key) /\ IndexLess(own[i].key, key)})
         IN  SubSeq(own, 1, before) \o <<[key |-> key, def |-> value]>>
             \o SubSeq(own, before + 1, Len(own))
    ELSE Append(own, [key |-> key, def |-> value])

\* signals[name] = signal: the signal becomes the own property name, or,
\* under the name __proto__, the prototype of the mapping.
SetSignal(signals, name, def) ==
    IF name = ProtoKey THEN [signals EXCEPT !.proto = def]
    ELSE [signals EXCEPT !.own = SetOwn(signals.own, name, def)]

\* matrix[key] = value
SetKey(mx, key, value) ==
    [k \in DOMAIN mx \cup {key} |-> IF k = key THEN value ELSE mx[k]]

\* The locals of parseDbcFile before the loop.
DbcStart == [matrix |-> <<>>, currentMessage |-> Null, currentMessageId |-> NoText]

\* One iteration of the loop of parseDbcFile, on the locals st.
DbcStep(st, line) ==
    LET trimmedLine  == trim(line)
        messageMatch == MESSAGE_REGEX(trimmedLine)
        signalMatch  == SIGNAL_REGEX(trimmedLine)
    IN  IF messageMatch.ok
        THEN [matrix           |-> SetKey(st.matrix, messageMatch.groups[1],
                                          DbcMessage(messageMatch)),
              currentMessage   |-> DbcMessage(messageMatch),
              currentMessageId |-> messageMatch.groups[1]]
        ELSE IF signalMatch.ok /\ st.currentMessage # Null /\ st.currentMessageId # NoText
        THEN LET updated == [st.currentMessage EXCEPT
                                !.signals = SetSignal(st.currentMessage.signals,
                                                      signalMatch.groups[1],
                                                      DbcSignal(signalMatch))]
             IN  [matrix           |-> SetKey(st.matrix, st.currentMessageId, updated),
                  currentMessage   |-> updated,
                  currentMessageId |-> st.currentMessageId]
        ELSE st

\* The locals after the first n lines.
RECURSIVE DbcLoop(_, _)
DbcLoop(ls, n) == IF n = 0 THEN DbcStart ELSE DbcStep(DbcLoop(ls, n - 1), ls[n])

\* parseDbcFile(content)
parseDbcFile(text) ==
    LET ls == SplitNewline(text)
    IN  DbcLoop(ls, Len(ls)).matrix

(***************************************************************************)
(* Inputs of the extraction runs                                           *)
(***************************************************************************)

SampleBytePatterns ==
    { <<>>,
      <<1, 0>>,
      <<255>>,
      <<255, 255, 255, 255, 255, 255, 255, 255>>,
      <<18, 52, 86, 120, 154, 188, 222, 240>>,
      <<0, 0, 0, 0, 1>>,
      <<128, 0, 0, 1>>,
      <<165, 90, 195>>,
      <<0, 0, 0, 128, 0, 0, 0, 1>>,
      <<1, 2, 4, 8, 16, 32, 64>> }

SampleStartBits == {0, 1, 7, 8, 9, 16, 24, 31, 32, 33, 40, 56, 63}

SampleLengths == {1, 2, 7, 8, 9, 16, 24, 30, 31, 32, 33, 40, 48, 63, 64}

SampleScaleOffsets == {<<1, 0>>, <<1, -40>>, <<3, 7>>}

SigName == <<"S">>

MakeSignal(name, start, len, le, sgn, scale, offset) ==
    [name |-> name, startBit |-> start, length |-> len, isLittleEndian |-> le,
     isSigned |-> sgn, scale |-> scale, offset |-> offset,
     min |-> 0, max |-> 0, unit |-> <<>>]

SampleLayoutSignals ==
    { MakeSignal(SigName, s, l, le, sg, so[1], so[2]) :
        s \in SampleStartBits, l \in SampleLengths,
        le \in BOOLEAN, sg \in BOOLEAN, so \in SampleScaleOffsets }

\* "(1.5) can0 123#1122"
LineLog ==
    <<"(", "1", ".", "5", ")", " ", "c", "a", "n", "0", " ", "1", "2", "3", "#", "1", "1", "2", "2">>

\* "(2) c 1a#ABC"
LineLogOdd ==
    <<"(", "2", ")", " ", "c", " ", "1", "a", "#", "A", "B", "C">>

\* "1) 1.5 Rx 123 2 11 22"
LineTrc ==
    <<"1", ")", " ", "1", ".", "5", " ", "R", "x", " ", "1", "2", "3", " ", "2", " ", "1", "1", " ", "2", "2">>

\* "3) 4 Tx 0x1F 1 112233"
LineTrc0x ==
    <<"3", ")", " ", "4", " ", "T", "x", " ", "0", "x", "1", "F", " ", "1", " ", "1", "1", "2", "2", "3", "3">>

\* "3) 4 Tx 1F 1 112233"
LineTrcBare ==
    <<"3", ")", " ", "4", " ", "T", "x", " ", "1", "F", " ", "1", " ", "1", "1", "2", "2", "3", "3">>

\* "4) 1 Rx 0X1F 0"
LineTrc0X ==
    <<"4", ")", " ", "1", " ", "R", "x", " ", "0", "X", "1", "F", " ", "0">>

\* "1\f1.5 M 7E Rx 1 0F": a form feed separates the first two fields.
LineView ==
    <<"1", "\f", "1", ".", "5", " ", "M", " ", "7", "E", " ", "R", "x", " ", "1", " ", "0", "F">>

\* "5 123 8 11\f22": a form feed separates the two bytes.
LineCustom ==
    <<"5", " ", "1", "2", "3", " ", "8", " ", "1", "1", "\f", "2", "2">>

\* "5 0x123 4294967296 11 22": a length field of 2^32
LineCustom0x ==
    <<"5", " ", "0", "x", "1", "2", "3", " ", "4", "2", "9", "4", "9", "6", "7", "2", "9", "6",
      " ", "1", "1", " ", "2", "2">>

\* " ;1) 1.5 Rx 123 2 11 22"
LineComment ==
    <<" ", ";", "1", ")", " ", "1", ".", "5", " ", "R", "x", " ", "1", "2", "3", " ", "2", " ", "1", "1", " ", "2", "2">>

\* " \t\f"
LineBlank ==
    <<" ", "\t", "\f">>

\* "time 1"
LineOther ==
    <<"t", "i", "m", "e", " ", "1">>

\* "a.log"
NameLog == <<"a", ".", "l", "o", "g">>

\* "\u0130.TRC", the first letter being the capital I with a dot above
NameTrc == <<"U+0130", ".", "T", "R", "C">>

\* "c.txt"
NameOther == <<"c", ".", "t", "x", "t">>

SampleLines ==
    {LineLog, LineLogOdd, LineTrc, LineTrc0x, LineTrcBare,
     LineTrc0X, LineView, LineCustom, LineCustom0x, LineComment,
     LineBlank, LineOther}

\* "trc": a name without an extension
NameBare == <<"t", "r", "c">>

SampleFileNames == {NameLog, NameTrc, NameOther, NameBare}

\* "\n" and "\r\n"
LineEndings == {<<"\n">>, <<"\r", "\n">>}

\* The largest number of lines of a log document.
MaxLines == 2

\* The lines ls joined by the line ending sep.
RECURSIVE JoinLines(_, _)
JoinLines(ls, sep) ==
    IF ls = <<>> THEN <<>>
    ELSE IF Len(ls) = 1 THEN ls[1]
    ELSE JoinLines(SubSeq(ls, 1, Len(ls) - 1), sep) \o sep \o ls[Len(ls)]

SampleContents ==
    {JoinLines(ls, sep) :
        ls \in UNION {[1..n -> SampleLines] : n \in 0..MaxLines}, sep \in LineEndings}

\* No activation of extractSignalValue.
ExtractIdle ==
    /\ data = <<>>
    /\ signal = MakeSignal(SigName, 0, 1, FALSE, FALSE, 1, 0)
    /\ rawValue = 0
    /\ rawAdjusted = Num(0)
    /\ physValue = Num(0)
    /\ epc = "idle"
    /\ encodedBits = {}

\* No activation of parseCanLogFile.
ParseIdle ==
    /\ build = "canParser"
    /\ content = <<>>
    /\ fileName = <<>>
    /\ lines = <<>>
    /\ orderedParsers = <<>>
    /\ lineIdx = 0
    /\ parserIdx = 0
    /\ messages = <<>>
    /\ ppc = "idle"
    /\ calls = <<>>
    /\ origins = <<>>

\* "(9007199254740993) v 1F#FFFFFFFFFFFF7F": a log line with a seven-byte
\* payload and a timestamp that no double holds.
LineWide ==
    <<"(", "9", "0", "0", "7", "1", "9", "9", "2", "5", "4", "7", "4", "0", "9", "9", "3", ")", " ", "v", " ", "1", "F", "#", "F", "F", "F", "F", "F", "F", "F", "F", "F", "F", "F", "F", "7", "F">>

\* "1) 1 Rx 20000000000001 1 20000000000001": an identifier and a data token
\* of 54 bits, which no double holds
LineWideId ==
    <<"1", ")", " ", "1", " ", "R", "x", " ", "2", "0", "0", "0", "0", "0", "0", "0", "0", "0",
      "0", "0", "0", "1", " ", "1", " ", "2", "0", "0", "0", "0", "0", "0", "0", "0", "0", "0",
      "0", "0", "1">>

\* "5 123 1 11 22": a line of the plain format that declares one byte and
\* carries two.
LineShortDlc ==
    <<"5", " ", "1", "2", "3", " ", "1", " ", "1", "1", " ", "2", "2">>

\* Every recognizer of either build.
AllParsers ==
    {"parseCustomFormatLine", "parseLogLine", "parsePcanV5Line", "parseTrcLine",
     "parsePcanViewLine"}

\* The frame parseExcelFile builds for the row {Timestamp: 1, ID: "123",
\* DLC: 2, Data: "-1 +1A"}: the tokens of the data cell are kept as written,
\* signs included.
ExcelFrame ==
    Frame(Decimal(<<"1">>, <<>>), <<"0", "x", "1", "2", "3">>, NatNumber(2),
          <<<<"-", "1">>, <<"+", "1", "A">>>>, FALSE)

\* The frames the recognizers return for the sample lines, and the frame from
\* the spreadsheet.
SampleFrames ==
    ({Recognize(p, trim(l)) :
        p \in AllParsers, l \in SampleLines \cup {LineWide, LineShortDlc}}
        \ {Null}) \cup {ExcelFrame}

\* An own property of MessageDefinition.signals, under the key that both
\* parseDbcFile and the bundled matrix give it: its name.
Sig(name, start, len, le, sgn, scale, offset) ==
    [key |-> name, def |-> MakeSignal(name, start, len, le, sgn, scale, offset)]

\* A MessageDefinition.
MessageDef(name, dlc, sigs) ==
    [name |-> name, dlc |-> NatNumber(dlc), signals |-> [own |-> sigs, proto |-> Null]]

\* Matrix keys: the decimal texts of 0x123, 0x1F, 0x1A, 0x7E, 0 and 2^53.
Key291 == <<"2", "9", "1">>
Key31 == <<"3", "1">>
Key26 == <<"2", "6">>
Key126 == <<"1", "2", "6">>
Key0 == <<"0">>
KeyWide == <<"9", "0", "0", "7", "1", "9", "9", "2", "5", "4", "7", "4", "0", "9", "9", "2">>

MatrixA ==
    (Key291 :> MessageDef(<<"M", "1">>, 8,
                <<Sig(<<"A">>, 0, 8, TRUE, FALSE, 1, 0),
                  Sig(<<"B">>, 8, 8, FALSE, TRUE, 1, -40)>>))
    @@ (Key31 :> MessageDef(<<"M", "2">>, 8,
                <<Sig(<<"W">>, 0, 31, TRUE, TRUE, 5, 7),
                  Sig(<<"C">>, 0, 16, FALSE, FALSE, 1, 0),
                  Sig(<<"D">>, 4, 12, TRUE, TRUE, 3, 7)>>))
    @@ (Key26 :> MessageDef(<<"M", "3">>, 2,
                <<Sig(<<"E">>, 7, 9, FALSE, TRUE, 1, 0)>>))

MatrixB ==
    (Key291 :> MessageDef(<<"N", "1">>, 8,
                <<Sig(<<"A">>, 4, 8, TRUE, TRUE, 3, 7),
                  Sig(<<"X">>, 0, 1, TRUE, FALSE, 1, 0)>>))
    @@ (Key126 :> MessageDef(<<"N", "2">>, 1, <<>>))
    @@ (KeyWide :> MessageDef(<<"N", "4">>, 1,
                <<Sig(<<"Y">>, 0, 8, TRUE, FALSE, 1, 0)>>))
    @@ (Key0 :> [name |-> <<"N", "3">>, dlc |-> NatNumber(0),
                 signals |-> [own |-> <<Sig(<<"Z">>, 0, 8, TRUE, FALSE, 1, 0)>>,
                              proto |-> MakeSignal(ProtoKey, 8, 8, TRUE, FALSE, 1, 0)]])

MatrixEmpty == [k \in {} |-> MessageDef(<<>>, 0, <<>>)]

SampleMatrices == {MatrixA, MatrixB, MatrixEmpty}

\* The longest frame list passed to decodeMessages.
MaxFrames == 2

\* How many times decodeMessages is applied, each time to the previous result.
MaxDecodes == 2

SampleFrameLists ==
    UNION {[1..n -> SampleFrames] : n \in 0..MaxFrames}

\* The frame of the line with the 54-bit identifier.
WideFrame == Recognize("parseTrcLine", trim(LineWideId))

\* The list of the one wide frame.
WideFrameLists == {<<WideFrame>>}

\* 'BO_ 291 M1: 8 X'
DbcMsg291 ==
    <<"B", "O", "_", " ", "2", "9", "1", " ", "M", "1", ":", " ", "8", " ", "X">>

\* 'BO_ 0291 M0: 8 X'
DbcMsg0291 ==
    <<"B", "O", "_", " ", "0", "2", "9", "1", " ", "M", "0", ":", " ", "8", " ", "X">>

\* 'BO_ 7 M2 : 4294967296 X': a one-digit identifier and a length of 2^32
DbcMsg7 ==
    <<"B", "O", "_", " ", "7", " ", "M", "2", " ", ":", " ", "4", "2", "9", "4", "9", "6", "7",
      "2", "9", "6", " ", "X">>

\* 'BO_ 291 N1: 4 Y'
DbcMsg291Again ==
    <<"B", "O", "_", " ", "2", "9", "1", " ", "N", "1", ":", " ", "4", " ", "Y">>

\* 'BO_ 126 M3: 1'
DbcMsgBare ==
    <<"B", "O", "_", " ", "1", "2", "6", " ", "M", "3", ":", " ", "1">>

\* ' SG_ Z : 0|0@1+ (1,0) "V"'
DbcSigZeroLength ==
    <<" ", "S", "G", "_", " ", "Z", " ", ":", " ", "0", "|", "0", "@", "1", "+", " ",
      "(", "1", ",", "0", ")", " ", "\"", "V", "\"">>

\* ' SG_ A : 0|8@1+ (1,0) [0|255] "V" X'
DbcSigA ==
    <<" ", "S", "G", "_", " ", "A", " ", ":", " ", "0", "|", "8", "@", "1", "+", " ",
      "(", "1", ",", "0", ")", " ", "[", "0", "|", "2", "5", "5", "]", " ", "\"", "V",
      "\"", " ", "X">>

\* ' SG_ A : 0|8@1+ (1,0) "V" X'
DbcSigANoRange ==
    <<" ", "S", "G", "_", " ", "A", " ", ":", " ", "0", "|", "8", "@", "1", "+", " ",
      "(", "1", ",", "0", ")", " ", "\"", "V", "\"", " ", "X">>

\* ' SG_ A : 8|4@0- (3,-40) [-5|5] ""'
DbcSigAOther ==
    <<" ", "S", "G", "_", " ", "A", " ", ":", " ", "8", "|", "4", "@", "0", "-", " ",
      "(", "3", ",", "-", "4", "0", ")", " ", "[", "-", "5", "|", "5", "]", " ", "\"",
      "\"">>

\* 'SG_ B: 4|12@0- (0.5,-1.5) "u"'
DbcSigB ==
    <<"S", "G", "_", " ", "B", ":", " ", "4", "|", "1", "2", "@", "0", "-", " ", "(",
      "0", ".", "5", ",", "-", "1", ".", "5", ")", " ", "\"", "u", "\"">>

\* ' SG_ A m0 : 0|8@1+ (1,0) "V"'
DbcSigMux ==
    <<" ", "S", "G", "_", " ", "A", " ", "m", "0", " ", ":", " ", "0", "|", "8", "@",
      "1", "+", " ", "(", "1", ",", "0", ")", " ", "\"", "V", "\"">>

\* ' SG_ __proto__ : 8|8@1+ (1,0) "V"'
DbcSigProto ==
    <<" ", "S", "G", "_", " ", "_", "_", "p", "r", "o", "t", "o", "_", "_", " ", ":", " ",
      "8", "|", "8", "@", "1", "+", " ", "(", "1", ",", "0", ")", " ", "\"", "V", "\"">>

\* ' SG_ 1 : 4294967296|4294967296@1+ (1,0) "V"': a start bit and a length
\* of 2^32
DbcSigOne ==
    <<" ", "S", "G", "_", " ", "1", " ", ":", " ", "4", "2", "9", "4", "9", "6", "7", "2", "9",
      "6", "|", "4", "2", "9", "4", "9", "6", "7", "2", "9", "6", "@", "1", "+", " ", "(", "1",
      ",", "0", ")", " ", "\"", "V", "\"">>

\* 'CM_ BO_ 291 "x";'
DbcComment ==
    <<"C", "M", "_", " ", "B", "O", "_", " ", "2", "9", "1", " ", "\"", "x", "\"", ";">>

\* ''
DbcBlank ==
    <<>>

SampleDbcLines ==
    {DbcMsg291, DbcMsg0291, DbcMsg7, DbcMsg291Again, DbcMsgBare, DbcSigA,
     DbcSigANoRange, DbcSigAOther, DbcSigB, DbcSigZeroLength, DbcSigMux, DbcSigProto,
     DbcSigOne, DbcComment, DbcBlank}

\* The largest number of lines of a catalog document.
MaxDbcLines == 3

SampleDbcContents ==
    {JoinLines(ls, sep) :
        ls \in UNION {[1..n -> SampleDbcLines] : n \in 0..MaxDbcLines},
        sep \in LineEndings}

\* No activation of decodeMessages.
DecodeIdle ==
    /\ matrix = <<>>
    /\ decIn = <<>>
    /\ decOut = <<>>
    /\ decodes = 0
    /\ dpc = "idle"
    /\ prevMatrix = Null
    /\ cut = 0
    /\ partOut = <<<<>>, <<>>>>
    /\ heap = <<>>
    /\ called = {}

\* No activation of parseDbcFile.
DbcIdle ==
    /\ dbcContent = <<>>
    /\ dbcLines = <<>>
    /\ dbcIdx = 0
    /\ dbcMatrix = <<>>
    /\ currentMessage = Null
    /\ currentMessageId = NoText
    /\ mpc = "idle"

ExtractInit ==
    /\ data \in SampleBytePatterns
    /\ signal \in {sig \in SampleLayoutSignals : sig.startBit + sig.length <= StreamBits}
    /\ rawValue = 0
    /\ rawAdjusted = Num(0)
    /\ physValue = Num(0)
    /\ epc = "entry"
    /\ encodedBits = {}
    /\ ParseIdle
    /\ DecodeIdle
    /\ DbcIdle

\* The little-endian branch of extractSignalValue.
ExtractLittleEndian ==
    /\ epc = "entry"
    /\ signal.isLittleEndian
    /\ rawValue' = LittleEndianRaw(data, signal)
    /\ epc' = "extracted"
    /\ UNCHANGED <<data, signal, rawAdjusted, physValue, encodedBits>>
    /\ UNCHANGED parseVars
    /\ UNCHANGED decodeVars
    /\ UNCHANGED dbcVars

\* The big-endian branch of extractSignalValue.
ExtractBigEndian ==
    /\ epc = "entry"
    /\ ~signal.isLittleEndian
    /\ rawValue' = BigEndianRaw(data, signal)
    /\ epc' = "extracted"
    /\ UNCHANGED <<data, signal, rawAdjusted, physValue, encodedBits>>
    /\ UNCHANGED parseVars
    /\ UNCHANGED decodeVars
    /\ UNCHANGED dbcVars

\* The two's-complement step.
TwosComplement ==
    /\ epc = "extracted"
    /\ rawAdjusted' = SignAdjust(rawValue, signal)
    /\ epc' = "adjusted"
    /\ UNCHANGED <<data, signal, rawValue, physValue, encodedBits>>
    /\ UNCHANGED parseVars
    /\ UNCHANGED decodeVars
    /\ UNCHANGED dbcVars

\* return rawValue * signal.scale + signal.offset.
ReturnPhysical ==
    /\ epc = "adjusted"
    /\ physValue' = ScaleOffset(rawAdjusted, signal)
    /\ epc' = "returned"
    /\ UNCHANGED <<data, signal, rawValue, rawAdjusted, encodedBits>>
    /\ UNCHANGED parseVars
    /\ UNCHANGED decodeVars
    /\ UNCHANGED dbcVars

ExtractNext ==
    \/ ExtractLittleEndian
    \/ ExtractBigEndian
    \/ TwosComplement
    \/ ReturnPhysical

SpecExtract == ExtractInit /\ [][ExtractNext]_vars

\* The signal lengths of the encoded payloads: those whose values the
\* two-limb numbers hold.
RoundTripLengths == {l \in SampleLengths : l <= 40}

\* The raw values written for a signal of length len, as sets of set bits:
\* zero, one, the top bit alone, all bits, all bits below the top bit.
SampleRawBits(len) ==
    {{}, {0}, {len - 1}, 0..(len - 1), 0..(len - 2)}

\* extractSignalValue is applied to the payload the encoder gives for a
\* sample raw value.
RoundTripInit ==
    /\ signal \in {sig \in SampleLayoutSignals :
                      /\ sig.length \in RoundTripLengths
                      /\ sig.startBit + sig.length <= StreamBits}
    /\ encodedBits \in SampleRawBits(signal.length)
    /\ data = Encode(signal, encodedBits)
    /\ rawValue = 0
    /\ rawAdjusted = Num(0)
    /\ physValue = Num(0)
    /\ epc = "entry"
    /\ ParseIdle
    /\ DecodeIdle
    /\ DbcIdle

SpecRoundTrip == RoundTripInit /\ [][ExtractNext]_vars

(***************************************************************************)
(* parseCanLogFile                                                         *)
(***************************************************************************)

ParseInit ==
    /\ build \in Builds
    /\ content \in SampleContents
    /\ fileName \in SampleFileNames
    /\ lines = <<>>
    /\ orderedParsers = <<>>
    /\ lineIdx = 0
    /\ parserIdx = 0
    /\ messages = <<>>
    /\ ppc = "entry"
    /\ calls = <<>>
    /\ origins = <<>>
    /\ ExtractIdle
    /\ DecodeIdle
    /\ DbcIdle

\* !trimmedLine || trimmedLine.startsWith(';')
IsSkipped(line) == trim(line) = <<>> \/ startsWith(trim(line), <<";">>)

\* Entry: split the content, choose the recognizer order.
ParseEntry ==
    /\ ppc = "entry"
    /\ lines' = SplitLines(content)
    /\ orderedParsers' = SelectParsers(build, fileName)
    /\ lineIdx' = 1
    /\ parserIdx' = 0
    /\ messages' = <<>>
    /\ ppc' = "line"
    /\ UNCHANGED <<build, content, fileName, calls, origins>>
    /\ UNCHANGED extractVars
    /\ UNCHANGED decodeVars
    /\ UNCHANGED dbcVars

\* The outer loop at an empty line or a comment: continue.
SkipLine ==
    /\ ppc = "line"
    /\ lineIdx <= Len(lines)
    /\ IsSkipped(lines[lineIdx])
    /\ lineIdx' = lineIdx + 1
    /\ UNCHANGED <<build, content, fileName, lines, orderedParsers, parserIdx, messages,
                   ppc, calls, origins>>
    /\ UNCHANGED extractVars
    /\ UNCHANGED decodeVars
    /\ UNCHANGED dbcVars

\* The outer loop at any other line: enter the inner loop.
BeginLine ==
    /\ ppc = "line"
    /\ lineIdx <= Len(lines)
    /\ ~IsSkipped(lines[lineIdx])
    /\ parserIdx' = 1
    /\ ppc' = "parser"
    /\ UNCHANGED <<build, content, fileName, lines, orderedParsers, lineIdx, messages,
                   calls, origins>>
    /\ UNCHANGED extractVars
    /\ UNCHANGED decodeVars
    /\ UNCHANGED dbcVars

\* The inner loop: the recognizer returns null, go on with the next one.
ParserRejects ==
    /\ ppc = "parser"
    /\ parserIdx <= Len(orderedParsers)
    /\ Recognize(orderedParsers[parserIdx], trim(lines[lineIdx])) = Null
    /\ calls' = Append(calls, <<lineIdx, orderedParsers[parserIdx]>>)
    /\ parserIdx' = parserIdx + 1
    /\ UNCHANGED <<build, content, fileName, lines, orderedParsers, lineIdx, messages,
                   ppc, origins>>
    /\ UNCHANGED extractVars
    /\ UNCHANGED decodeVars
    /\ UNCHANGED dbcVars

\* The inner loop without its break: the frame is pushed and the next
\* recognizer is consulted for the same line.
ParserAcceptsNoBreak ==
    /\ ppc = "parser"
    /\ parserIdx <= Len(orderedParsers)
    /\ LET message == Recognize(orderedParsers[parserIdx], trim(lines[lineIdx]))
       IN  /\ message # Null
           /\ messages' = Append(messages, message)
    /\ calls' = Append(calls, <<lineIdx, orderedParsers[parserIdx]>>)
    /\ origins' = Append(origins, lineIdx)
    /\ parserIdx' = parserIdx + 1
    /\ UNCHANGED <<build, content, fileName, lines, orderedParsers, lineIdx, ppc>>
    /\ UNCHANGED extractVars
    /\ UNCHANGED decodeVars
    /\ UNCHANGED dbcVars

\* The inner loop: the recognizer returns a frame; push it and break.
ParserAccepts ==
    /\ ppc = "parser"
    /\ parserIdx <= Len(orderedParsers)
    /\ LET message == Recognize(orderedParsers[parserIdx], trim(lines[lineIdx]))
       IN  /\ message # Null
           /\ messages' = Append(messages, message)
    /\ calls' = Append(calls, <<lineIdx, orderedParsers[parserIdx]>>)
    /\ origins' = Append(origins, lineIdx)
    /\ lineIdx' = lineIdx + 1
    /\ ppc' = "line"
    /\ UNCHANGED <<build, content, fileName, lines, orderedParsers, parserIdx>>
    /\ UNCHANGED extractVars
    /\ UNCHANGED decodeVars
    /\ UNCHANGED dbcVars

\* The inner loop ran out of recognizers: the line is ignored.
LineUnmatched ==
    /\ ppc = "parser"
    /\ parserIdx > Len(orderedParsers)
    /\ lineIdx' = lineIdx + 1
    /\ ppc' = "line"
    /\ UNCHANGED <<build, content, fileName, lines, orderedParsers, parserIdx, messages,
                   calls, origins>>
    /\ UNCHANGED extractVars
    /\ UNCHANGED decodeVars
    /\ UNCHANGED dbcVars

\* return messages
ParseReturn ==
    /\ ppc = "line"
    /\ lineIdx > Len(lines)
    /\ ppc' = "done"
    /\ UNCHANGED <<build, content, fileName, lines, orderedParsers, lineIdx, parserIdx,
                   messages, calls, origins>>
    /\ UNCHANGED extractVars
    /\ UNCHANGED decodeVars
    /\ UNCHANGED dbcVars

ParseNext ==
    \/ ParseEntry
    \/ SkipLine
    \/ BeginLine
    \/ ParserRejects
    \/ ParserAccepts
    \/ LineUnmatched
    \/ ParseReturn

SpecParse == ParseInit /\ [][ParseNext]_vars

(***************************************************************************)
(* decodeMessages: messages.map(callback), one frame per step              *)
(***************************************************************************)

DecodeInit ==
    /\ matrix \in SampleMatrices
    /\ decIn \in SampleFrameLists \cup WideFrameLists
    /\ decOut = <<>>
    /\ decodes = 1
    /\ dpc = "map"
    /\ prevMatrix = Null
    /\ cut = 0
    /\ partOut = <<<<>>, <<>>>>
    /\ heap = <<>>
    /\ called = {}
    /\ ExtractIdle
    /\ ParseIdle
    /\ DbcIdle

\* if (!definition) return message;
DecodeMiss ==
    /\ dpc = "map"
    /\ Len(decOut) < Len(decIn)
    /\ LET message == decIn[Len(decOut) + 1]
       IN  /\ MessageKey(message) \notin DOMAIN matrix
           /\ decOut' = Append(decOut, DecodeOne(message, matrix))
    /\ UNCHANGED <<matrix, decIn, decodes, dpc, prevMatrix, cut, partOut, heap, called>>
    /\ UNCHANGED extractVars
    /\ UNCHANGED parseVars
    /\ UNCHANGED dbcVars

\* The definition exists: the signals are extracted and the callback returns
\* a new frame object.
DecodeHit ==
    /\ dpc = "map"
    /\ Len(decOut) < Len(decIn)
    /\ LET message == decIn[Len(decOut) + 1]
       IN  /\ MessageKey(message) \in DOMAIN matrix
           /\ decOut' = Append(decOut, DecodeOne(message, matrix))
    /\ UNCHANGED <<matrix, decIn, decodes, dpc, prevMatrix, cut, partOut, heap, called>>
    /\ UNCHANGED extractVars
    /\ UNCHANGED parseVars
    /\ UNCHANGED dbcVars

\* map has visited every element; decodeMessages returns the new array.
DecodeReturn ==
    /\ dpc = "map"
    /\ Len(decOut) = Len(decIn)
    /\ dpc' = "done"
    /\ UNCHANGED <<matrix, decIn, decOut, decodes, prevMatrix, cut, partOut, heap, called>>
    /\ UNCHANGED extractVars
    /\ UNCHANGED parseVars
    /\ UNCHANGED dbcVars

\* The caller passes the result to decodeMessages again, with any matrix.
DecodeAgain ==
    /\ dpc = "done"
    /\ decodes < MaxDecodes
    /\ matrix' \in SampleMatrices
    /\ prevMatrix' = matrix
    /\ decIn' = decOut
    /\ decOut' = <<>>
    /\ decodes' = decodes + 1
    /\ dpc' = "map"
    /\ UNCHANGED <<cut, partOut, heap, called>>
    /\ UNCHANGED extractVars
    /\ UNCHANGED parseVars
    /\ UNCHANGED dbcVars

DecodeNext ==
    \/ DecodeMiss
    \/ DecodeHit
    \/ DecodeReturn
    \/ DecodeAgain

SpecDecode == DecodeInit /\ [][DecodeNext]_vars

(***************************************************************************)
(* decodeMessages on objects: calls on the parts of a list and on the      *)
(* whole list, against one matrix                                          *)
(***************************************************************************)

\* The objects of a run are the elements of heap, and a reference to an
\* object is its position there.  The definition objects of the matrix come
\* first, in the order of their keys; an object a call creates is appended.

\* The reference of the definition object the matrix holds under the key k.
RefOf(mx, k) == 1 + Cardinality({j \in DOMAIN mx : IndexLess(j, k)})

\* The matrix object: under each key, the reference of a definition object.
MatrixRefs(mx) == [k \in DOMAIN mx |-> RefOf(mx, k)]

\* The definition objects of a matrix, each at its reference.
MatrixObjects(mx) ==
    [r \in 1..Cardinality(DOMAIN mx) |-> mx[CHOOSE k \in DOMAIN mx : RefOf(mx, k) = r]]

\* The matrix as its definition objects stand in the objects h.
MatrixView(mx, h) == [k \in DOMAIN mx |-> h[RefOf(mx, k)]]

\* obj after obj[n] = m[n] for every key n of m.
AssignAll(obj, m) ==
    [n \in DOMAIN obj \cup DOMAIN m |-> IF n \in DOMAIN m THEN m[n] ELSE obj[n]]

\* A callback that fills one decodedSignals object for all the frames of a
\* call: the object is created at the first frame that has a definition and
\* every later frame writes its signals into it.
MapCallbackOneObject(st, message, refs) ==
    LET messageId == MessageKey(message)
        earlier   == {k \in 1..Len(st.out) : "decoded" \in DOMAIN st.out[k]}
    IN  IF messageId \notin DOMAIN refs
        THEN [out |-> Append(st.out, message), heap |-> st.heap]
        ELSE LET definition == st.heap[refs[messageId]]
                 written    == DecodedSignals(DataBytes(message), definition)
             IN  IF earlier = {}
                 THEN [out  |-> Append(st.out,
                                       WithDecoded(message, [ref |-> Len(st.heap) + 1])),
                       heap |-> Append(st.heap, written)]
                 ELSE LET decodedSignals == st.out[Min(earlier)].decoded.ref
                      IN  [out  |-> Append(st.out,
                                           WithDecoded(message, [ref |-> decodedSignals])),
                           heap |-> [st.heap EXCEPT
                                        ![decodedSignals] = AssignAll(@, written)]]

\* The callback of messages.map, on the array out built so far and the
\* objects heap.  Without a definition the frame itself is returned.  With
\* one, "const decodedSignals = {}" creates an object, the loop writes the
\* signal values into it, and the frame returned is a new object that holds
\* the fields of the message and, under decoded, the reference of
\* decodedSignals.  Nothing else is written.
MapCallback(st, message, refs) ==
    LET messageId == MessageKey(message)
    IN  IF messageId \notin DOMAIN refs
        THEN [out |-> Append(st.out, message), heap |-> st.heap]
        ELSE LET definition     == st.heap[refs[messageId]]
                 decodedSignals == Len(st.heap) + 1
             IN  [out  |-> Append(st.out, WithDecoded(message, [ref |-> decodedSignals])),
                  heap |-> Append(st.heap,
                                  AssignAll(<<>>, DecodedSignals(DataBytes(message),
                                                                 definition)))]

\* messages.map(callback) after the first n frames.
RECURSIVE MapFrames(_, _, _, _)
MapFrames(frames, n, refs, h) ==
    IF n = 0 THEN [out |-> <<>>, heap |-> h]
    ELSE TheOne({MapCallback(st, frames[n], refs)
                 : st \in {MapFrames(frames, n - 1, refs, h)}})

\* decodeMessages(messages, matrix) on the objects h: the array returned and
\* the objects after the call.
decodeMessages(frames, refs, h) == MapFrames(frames, Len(frames), refs, h)

\* A frame with the object its decoded field refers to in its place.
Deref(frame, h) ==
    IF "decoded" \in DOMAIN frame
    THEN [frame EXCEPT !.decoded = h[frame.decoded.ref]]
    ELSE frame

\* The frames of an array as they read in the objects h.
Contents(frames, h) == [k \in 1..Len(frames) |-> Deref(frames[k], h)]

\* A caller holds a frame list and a matrix and calls decodeMessages on the
\* part decIn[1..cut], on the part decIn[cut+1..] and on the whole list, once
\* each and in any order.  A call runs to its end before the next starts.
PartitionInit ==
    /\ matrix \in SampleMatrices
    /\ heap = MatrixObjects(matrix)
    /\ decIn \in SampleFrameLists
    /\ cut \in 0..Len(decIn)
    /\ partOut = <<<<>>, <<>>>>
    /\ decOut = <<>>
    /\ called = {}
    /\ decodes = 0
    /\ dpc = "parts"
    /\ prevMatrix = Null
    /\ ExtractIdle
    /\ ParseIdle
    /\ DbcIdle

\* decodeMessages(decIn.slice(0, cut), matrix)
DecodeFirstPart ==
    /\ dpc = "parts"
    /\ "first" \notin called
    /\ LET r == decodeMessages(SubSeq(decIn, 1, cut), MatrixRefs(matrix), heap)
       IN  /\ partOut' = [partOut EXCEPT ![1] = r.out]
           /\ heap' = r.heap
           /\ matrix' = MatrixView(matrix, r.heap)
    /\ called' = called \cup {"first"}
    /\ decodes' = decodes + 1
    /\ UNCHANGED <<decIn, decOut, dpc, prevMatrix, cut>>
    /\ UNCHANGED extractVars
    /\ UNCHANGED parseVars
    /\ UNCHANGED dbcVars

\* decodeMessages(decIn.slice(cut), matrix)
DecodeSecondPart ==
    /\ dpc = "parts"
    /\ "second" \notin called
    /\ LET r == decodeMessages(SubSeq(decIn, cut + 1, Len(decIn)), MatrixRefs(matrix), heap)
       IN  /\ partOut' = [partOut EXCEPT ![2] = r.out]
           /\ heap' = r.heap
           /\ matrix' = MatrixView(matrix, r.heap)
    /\ called' = called \cup {"second"}
    /\ decodes' = decodes + 1
    /\ UNCHANGED <<decIn, decOut, dpc, prevMatrix, cut>>
    /\ UNCHANGED extractVars
    /\ UNCHANGED parseVars
    /\ UNCHANGED dbcVars

\* decodeMessages(decIn, matrix)
DecodeWhole ==
    /\ dpc = "parts"
    /\ "whole" \notin called
    /\ LET r == decodeMessages(decIn, MatrixRefs(matrix), heap)
       IN  /\ decOut' = r.out
           /\ heap' = r.heap
           /\ matrix' = MatrixView(matrix, r.heap)
    /\ called' = called \cup {"whole"}
    /\ decodes' = decodes + 1
    /\ UNCHANGED <<decIn, partOut, dpc, prevMatrix, cut>>
    /\ UNCHANGED extractVars
    /\ UNCHANGED parseVars
    /\ UNCHANGED dbcVars

PartitionNext ==
    \/ DecodeFirstPart
    \/ DecodeSecondPart
    \/ DecodeWhole

SpecPartition == PartitionInit /\ [][PartitionNext]_vars

(***************************************************************************)
(* parseDbcFile: the loop over the lines, one line per step                *)
(***************************************************************************)

DbcInit ==
    /\ dbcContent \in SampleDbcContents
    /\ dbcLines = <<>>
    /\ dbcIdx = 0
    /\ dbcMatrix = <<>>
    /\ currentMessage = Null
    /\ currentMessageId = NoText
    /\ mpc = "entry"
    /\ ExtractIdle
    /\ ParseIdle
    /\ DecodeIdle

\* Entry: split the content; the matrix is empty and there is no current
\* message.
DbcEntry ==
    /\ mpc = "entry"
    /\ dbcLines' = SplitNewline(dbcContent)
    /\ dbcIdx' = 1
    /\ dbcMatrix' = <<>>
    /\ currentMessage' = Null
    /\ currentMessageId' = NoText
    /\ mpc' = "loop"
    /\ UNCHANGED dbcContent
    /\ UNCHANGED extractVars
    /\ UNCHANGED parseVars
    /\ UNCHANGED decodeVars

\* if (messageMatch): a new current message with an empty signal mapping is
\* stored under the identifier text.
DbcMessageLine ==
    /\ mpc = "loop"
    /\ dbcIdx <= Len(dbcLines)
    /\ LET messageMatch == MESSAGE_REGEX(trim(dbcLines[dbcIdx]))
       IN  /\ messageMatch.ok
           /\ currentMessageId' = messageMatch.groups[1]
           /\ currentMessage' = DbcMessage(messageMatch)
           /\ dbcMatrix' = SetKey(dbcMatrix, messageMatch.groups[1], DbcMessage(messageMatch))
    /\ dbcIdx' = dbcIdx + 1
    /\ UNCHANGED <<dbcContent, dbcLines, mpc>>
    /\ UNCHANGED extractVars
    /\ UNCHANGED parseVars
    /\ UNCHANGED decodeVars

\* else if (signalMatch && currentMessage && currentMessageId): the signal is
\* stored in the current message, which is the object the matrix holds under
\* currentMessageId.
DbcSignalLine ==
    /\ mpc = "loop"
    /\ dbcIdx <= Len(dbcLines)
    /\ ~MESSAGE_REGEX(trim(dbcLines[dbcIdx])).ok
    /\ currentMessage # Null
    /\ currentMessageId # NoText
    /\ LET signalMatch == SIGNAL_REGEX(trim(dbcLines[dbcIdx]))
           updated == [currentMessage EXCEPT
                          !.signals = SetSignal(currentMessage.signals,
                                                signalMatch.groups[1],
                                                DbcSignal(signalMatch))]
       IN  /\ signalMatch.ok
           /\ currentMessage' = updated
           /\ dbcMatrix' = SetKey(dbcMatrix, currentMessageId, updated)
    /\ dbcIdx' = dbcIdx + 1
    /\ UNCHANGED <<dbcContent, dbcLines, currentMessageId, mpc>>
    /\ UNCHANGED extractVars
    /\ UNCHANGED parseVars
    /\ UNCHANGED decodeVars

\* A signal line while there is no current message: neither branch is taken.
DbcOrphanSignal ==
    /\ mpc = "loop"
    /\ dbcIdx <= Len(dbcLines)
    /\ ~MESSAGE_REGEX(trim(dbcLines[dbcIdx])).ok
    /\ SIGNAL_REGEX(trim(dbcLines[dbcIdx])).ok
    /\ ~(currentMessage # Null /\ currentMessageId # NoText)
    /\ dbcIdx' = dbcIdx + 1
    /\ UNCHANGED <<dbcContent, dbcLines, dbcMatrix, currentMessage, currentMessageId, mpc>>
    /\ UNCHANGED extractVars
    /\ UNCHANGED parseVars
    /\ UNCHANGED decodeVars

\* A line that a skipping loop would also end the current message at.
DbcOtherLineEndsMessage ==
    /\ mpc = "loop"
    /\ dbcIdx <= Len(dbcLines)
    /\ ~MESSAGE_REGEX(trim(dbcLines[dbcIdx])).ok
    /\ ~SIGNAL_REGEX(trim(dbcLines[dbcIdx])).ok
    /\ dbcIdx' = dbcIdx + 1
    /\ currentMessage' = Null
    /\ currentMessageId' = NoText
    /\ UNCHANGED <<dbcContent, dbcLines, dbcMatrix, mpc>>
    /\ UNCHANGED extractVars
    /\ UNCHANGED parseVars
    /\ UNCHANGED decodeVars

\* A line that matches neither pattern: neither branch is taken.
DbcOtherLine ==
    /\ mpc = "loop"
    /\ dbcIdx <= Len(dbcLines)
    /\ ~MESSAGE_REGEX(trim(dbcLines[dbcIdx])).ok
    /\ ~SIGNAL_REGEX(trim(dbcLines[dbcIdx])).ok
    /\ dbcIdx' = dbcIdx + 1
    /\ UNCHANGED <<dbcContent, dbcLines, dbcMatrix, currentMessage, currentMessageId, mpc>>
    /\ UNCHANGED extractVars
    /\ UNCHANGED parseVars
    /\ UNCHANGED decodeVars

\* return matrix
DbcReturn ==
    /\ mpc = "loop"
    /\ dbcIdx > Len(dbcLines)
    /\ mpc' = "done"
    /\ UNCHANGED <<dbcContent, dbcLines, dbcIdx, dbcMatrix, currentMessage, currentMessageId>>
    /\ UNCHANGED extractVars
    /\ UNCHANGED parseVars
    /\ UNCHANGED decodeVars

DbcNext ==
    \/ DbcEntry
    \/ DbcMessageLine
    \/ DbcSignalLine
    \/ DbcOrphanSignal
    \/ DbcOtherLine
    \/ DbcReturn

SpecDbc == DbcInit /\ [][DbcNext]_vars

(***************************************************************************)
(* Properties of extractSignalValue (under SpecExtract)                    *)
(***************************************************************************)

\* Payload bit b: bit (b mod 8), counted from the least-significant bit, of
\* byte (b div 8); 0 when that byte lies beyond the payload.
PayloadBit(d, b) ==
    IF (b \div 8) < Len(d) THEN ByteBit(d[(b \div 8) + 1], b % 8) ELSE 0

\* Stream bit k: bit (7 - k mod 8) of byte (k div 8); 0 beyond the payload.
StreamBit(d, k) ==
    IF (k \div 8) < Len(d) THEN ByteBit(d[(k \div 8) + 1], 7 - (k % 8)) ELSE 0

\* Binary digit i of a number r with 0 <= r < 2^31.
BitOfValue(r, i) == IF i <= 30 THEN (r \div 2^i) % 2 ELSE 0

\* r is the sum over i in 0..L-1 of 2^i * bit(i): r is not negative and its
\* binary digits are bit(0), ..., bit(L-1), followed by zeros.
IsBitSum(r, L, bit(_)) ==
    /\ r >= 0
    /\ \A i \in 0..(StreamBits - 1) : BitOfValue(r, i) = (IF i < L THEN bit(i) ELSE 0)

\* The signal layouts the extraction claims speak of.
FitsPayload(d, sig) ==
    /\ Len(d) <= 8
    /\ sig.length \in 1..64
    /\ sig.startBit + sig.length <= 64

Extracted == epc \in {"extracted", "adjusted", "returned"}

\* C1: for a little-endian signal of length L in 1..64 with startBit + L <= 64,
\* the raw value extractSignalValue computes is the sum over i in 0..L-1 of
\* 2^i * (payload bit startBit + i), bits beyond the payload counting as 0.
C1_LittleEndianBitSum ==
    (Extracted /\ signal.isLittleEndian /\ FitsPayload(data, signal))
        => IsBitSum(rawValue, signal.length,
                    LAMBDA i : PayloadBit(data, signal.startBit + i))

\* C2: for a big-endian signal of length L in 1..64 with startBit + L <= 64,
\* the raw value is the sum over stream positions k in [startBit, startBit+L)
\* of 2^(startBit+L-1-k) * (stream bit k): raw bit i is stream bit
\* startBit + L - 1 - i, positions beyond the payload counting as 0.
C2_BigEndianBitSum ==
    (Extracted /\ ~signal.isLittleEndian /\ FitsPayload(data, signal))
        => IsBitSum(rawValue, signal.length,
                    LAMBDA i : StreamBit(data, signal.startBit + signal.length - 1 - i))

\* 2^L as a double, for L up to 46.
Pow2Num(L) == IF L <= 30 THEN Num(2^L) ELSE [hi |-> 2^(L - 16), lo |-> 0]

\* C3: when the extracted unsigned raw value is r with 0 <= r < 2^L, the value
\* that is scaled is r - 2^L if the signal is signed and bit L-1 of r is set,
\* and r otherwise; payload [0xFF] with a big-endian signed 8-bit signal at
\* startBit 0, scale 1, offset -40 decodes to -41.
C3_SignExtension ==
    /\ (/\ epc \in {"adjusted", "returned"}
        /\ signal.length \in 1..64
        /\ rawValue >= 0
        /\ (signal.length >= 31 \/ rawValue < 2^signal.length))
        => rawAdjusted =
              IF signal.isSigned /\ BitOfValue(rawValue, signal.length - 1) = 1
              THEN NumSub(Num(rawValue), Pow2Num(signal.length))
              ELSE Num(rawValue)
    /\ (/\ epc = "returned"
        /\ data = <<255>>
        /\ signal = MakeSignal(SigName, 0, 8, FALSE, TRUE, 1, -40))
        => physValue = Num(-41)

\* The payload padded with zero bytes to 8 bytes.
ZeroPad(d) == [k \in 1..8 |-> IF k <= Len(d) THEN d[k] ELSE 0]

\* C9: for both byte orders and every signal with startBit + length <= 64,
\* decoding a payload of n < 8 bytes yields a value, and the same raw and
\* physical value as decoding that payload padded with zero bytes to 8 bytes.
C9_TruncatedAsZeroPadded ==
    (Extracted /\ Len(data) < 8 /\ FitsPayload(data, signal))
        => /\ rawValue = ExtractRaw(ZeroPad(data), signal)
           /\ epc = "returned" => physValue = extractSignalValue(ZeroPad(data), signal)

\* A big-endian signal that starts inside a payload of 1..7 bytes and runs
\* past its end has been decoded to a non-zero raw value.
C9_Witness ==
    /\ epc = "returned"
    /\ Len(data) \in 1..7
    /\ FitsPayload(data, signal)
    /\ signal.startBit < 8 * Len(data)
    /\ signal.startBit + signal.length > 8 * Len(data)
    /\ ~signal.isLittleEndian
    /\ rawValue # 0

(***************************************************************************)
(* Properties of parseCanLogFile (under SpecParse)                         *)
(***************************************************************************)

UpperHexDigit ==
    {"0", "1", "2", "3", "4", "5", "6", "7", "8", "9", "A", "B", "C", "D", "E", "F"}

\* C4: every frame parseCanLogFile returns has dlc equal to the number of
\* its data tokens; a length the line declares never determines dlc.
C4_DlcIsTokenCount ==
    \A k \in 1..Len(messages) : messages[k].dlc = NatNumber(Len(messages[k].data))

\* C5: every element of the data of every frame parseCanLogFile returns is
\* exactly two uppercase hexadecimal digits.
C5_DataTokensTwoHexDigits ==
    \A k \in 1..Len(messages) :
        \A t \in 1..Len(messages[k].data) :
            LET hex == messages[k].data[t]
            IN  Len(hex) = 2 /\ hex[1] \in UpperHexDigit /\ hex[2] \in UpperHexDigit

\* The line b is the line a with a radix prefix put in front of one of its
\* tokens.
PrefixAdded(a, b) ==
    \E p \in 0..Len(a) :
        \E pre \in {<<"0", "x">>, <<"0", "X">>} :
            /\ p = 0 \/ a[p] \in WhiteSpace
            /\ b = SubSeq(a, 1, p) \o pre \o SubSeq(a, p + 1, Len(a))

\* C6: the id of every frame is one fixed two-character prefix followed by
\* uppercase hexadecimal digits only, and two lines that differ only in
\* whether the identifier carries a radix prefix give the same id.
C6_IdPrefixThenUpperHex ==
    \A j, k \in 1..Len(messages) :
        /\ Len(messages[k].id) > 2
        /\ SubSeq(messages[j].id, 1, 2) = SubSeq(messages[k].id, 1, 2)
        /\ \A p \in 3..Len(messages[k].id) : messages[k].id[p] \in UpperHexDigit
        /\ PrefixAdded(trim(lines[origins[j]]), trim(lines[origins[k]]))
               => messages[j].id = messages[k].id

\* The position in the active order of the first recognizer that matches the
\* line, 0 when none does.
FirstMatch(ps, line) ==
    LET hits == {i \in 1..Len(ps) : Recognize(ps[i], line) # Null}
    IN  IF hits = {} THEN 0 ELSE Min(hits)

\* The position of a recognizer in the active order.
PositionOf(ps, parser) == CHOOSE i \in 1..Len(ps) : ps[i] = parser

\* The frames and the recognizer calls agree with first-match-wins.
FirstMatchOutcome ==
    /\ \A l \in 1..Len(lines) :
           LET line == trim(lines[l])
               i == FirstMatch(orderedParsers, line)
           IN  /\ \A k \in 1..Len(messages) :
                      origins[k] = l =>
                          /\ ~IsSkipped(lines[l])
                          /\ i # 0
                          /\ messages[k] = Recognize(orderedParsers[i], line)
               /\ \A c \in 1..Len(calls) :
                      calls[c][1] = l =>
                          i = 0 \/ PositionOf(orderedParsers, calls[c][2]) <= i
               /\ (~IsSkipped(lines[l]) /\ i # 0)
                      => \E k \in 1..Len(messages) : origins[k] = l
    /\ \A k \in 1..Len(messages) : origins[k] \in 1..Len(lines)
    /\ \A j, k \in 1..Len(messages) : j < k => origins[j] < origins[k]
    /\ \A c \in 2..Len(calls) :
           \/ calls[c - 1][1] < calls[c][1]
           \/ /\ calls[c - 1][1] = calls[c][1]
              /\ PositionOf(orderedParsers, calls[c - 1][2]) + 1
                     = PositionOf(orderedParsers, calls[c][2])

\* C10: when parseCanLogFile returns, the recognizers were tried on each
\* non-skipped line in the active order; the frame appended for a line is the
\* one the first matching recognizer returned, no recognizer was tried after
\* a match, a line gave at most one frame, and the frames are in source-line
\* order.
C10_FirstMatchWins == ppc = "done" => FirstMatchOutcome

\* A file whose second line is matched by two recognizers of the active
\* order has been parsed to the end, and both lines gave a frame.
C10_Witness ==
    /\ ppc = "done"
    /\ Len(messages) = 2
    /\ \E i, j \in 1..Len(orderedParsers) :
           /\ i < j
           /\ Recognize(orderedParsers[i], trim(lines[2])) # Null
           /\ Recognize(orderedParsers[j], trim(lines[2])) # Null

(***************************************************************************)
(* Properties of decodeMessages (under SpecDecode)                         *)
(***************************************************************************)

\* The matrix has no definition under the decimal text of the frame's id.
CatalogMiss(message) == MessageKey(message) \notin DOMAIN matrix

\* The hexadecimal digits of an identifier token: the token without a
\* leading 0x or 0X.
IdDigits(token) ==
    IF Len(token) > 2 /\ token[1] = "0" /\ token[2] \in {"x", "X"}
    THEN SubSeq(token, 3, Len(token))
    ELSE token

\* The decimal text of the number a text of hexadecimal digits writes.
HexToDecimal(ds) ==
    TheOne({IF v = <<>> THEN <<"0">> ELSE BigToDigits(v) : v \in {BigFromHex(ds)}})

\* The id of the frame is a prefix and hexadecimal digits, and the matrix has
\* no entry under the decimal text of the number they write.
NoEntryFor(message) ==
    /\ \A i \in 1..Len(IdDigits(message.id)) : IdDigits(message.id)[i] \in HexDigit
    /\ HexToDecimal(IdDigits(message.id)) \notin DOMAIN matrix

\* C7: a frame without a decoded field whose identifier, converted from
\* hexadecimal to its decimal key, has no entry in the matrix comes back
\* unchanged, with decoded still absent.
C7_CatalogMissUnchanged ==
    \A k \in 1..Len(decOut) :
        (NoEntryFor(decIn[k]) /\ "decoded" \notin DOMAIN decIn[k])
            => decOut[k] = decIn[k] /\ "decoded" \notin DOMAIN decOut[k]

FrameFields == {"timestamp", "id", "dlc", "data", "isTx"}

\* The result so far keeps the input's order and fields, and a frame with
\* a definition carries one decoded entry per signal of that definition.
DecodeShape ==
    /\ Len(decOut) <= Len(decIn)
    /\ dpc = "done" => Len(decOut) = Len(decIn)
    /\ \A k \in 1..Len(decOut) :
           /\ \A f \in FrameFields : decOut[k][f] = decIn[k][f]
           /\ ~CatalogMiss(decIn[k]) =>
                  LET sigs == matrix[MessageKey(decIn[k])].signals.own
                  IN  /\ "decoded" \in DOMAIN decOut[k]
                      /\ DOMAIN decOut[k].decoded = {sigs[i].def.name : i \in 1..Len(sigs)}
                      /\ Cardinality(DOMAIN decOut[k].decoded) = Len(sigs)

\* C8: decodeMessages returns a list of the same length and order in which
\* every frame keeps timestamp, id, dlc, data and isTx; the decoded field of
\* a matched frame has exactly one entry per signal of the matched message
\* definition; the input frames are not modified while the call runs.
C8_DecodePreservesFrames ==
    /\ []DecodeShape
    /\ [][dpc = "map" => decIn' = decIn]_vars

(***************************************************************************)
(* Properties of the recognizer order (under SpecParse)                    *)
(***************************************************************************)

\* The name ends in the characters of ext, each in either letter case.
HasExtension(name, ext) ==
    /\ Len(name) >= Len(ext)
    /\ \A i \in 1..Len(ext) :
           name[Len(name) - Len(ext) + i] \in {ext[i], ToUpperChar(ext[i])}

\* The order consults the candump recognizer before the .trc recognizers.
LogFirst(ps) ==
    /\ PositionOf(ps, "parseLogLine") < PositionOf(ps, "parsePcanV5Line")
    /\ PositionOf(ps, "parseLogLine") < PositionOf(ps, "parseTrcLine")
    /\ PositionOf(ps, "parseLogLine") < PositionOf(ps, "parsePcanViewLine")

\* The order consults the .trc recognizers before the candump recognizer.
TrcFirst(ps) ==
    /\ PositionOf(ps, "parsePcanV5Line") < PositionOf(ps, "parseLogLine")
    /\ PositionOf(ps, "parseTrcLine") < PositionOf(ps, "parseLogLine")
    /\ PositionOf(ps, "parsePcanViewLine") < PositionOf(ps, "parseLogLine")

\* C11: a file name ending, in any letter case, in .log selects the log-first
\* order, one ending in .trc the trc-first order, and the two orders differ;
\* any other name, with or without an extension, selects the default order,
\* which is the log-first order.
C11_OrderingPolicy ==
    ppc \in {"line", "parser", "done"} =>
        /\ HasExtension(fileName, <<".", "l", "o", "g">>) => LogFirst(orderedParsers)
        /\ HasExtension(fileName, <<".", "t", "r", "c">>) => TrcFirst(orderedParsers)
        /\ (/\ ~HasExtension(fileName, <<".", "l", "o", "g">>)
            /\ ~HasExtension(fileName, <<".", "t", "r", "c">>))
               => /\ LogFirst(orderedParsers)
                  /\ orderedParsers = logParsers(build)
        /\ logParsers(build) # trcParsers(build)

\* A file named with an upper-case .TRC extension has been parsed to the end
\* and gave a frame.
C11_Witness ==
    /\ ppc = "done"
    /\ fileName = NameTrc
    /\ TrcFirst(orderedParsers)
    /\ Len(messages) > 0

(***************************************************************************)
(* Properties of parseDbcFile (under SpecDbc)                              *)
(***************************************************************************)

\* The text is the decimal numeral of a number: no leading zero.
CanonicalDecimal(k) ==
    /\ Len(k) > 0
    /\ \A i \in 1..Len(k) : k[i] \in Digit
    /\ Len(k) = 1 \/ k[1] # "0"

\* C12: every key of the matrix parseDbcFile returns is the canonical
\* base-10 text of its numeric identifier, so that every frame whose
\* identifier has that numeric value finds the entry under the key that
\* decodeMessages computes.
C12_KeysCanonicalDecimal ==
    mpc = "done" =>
        \A k \in DOMAIN dbcMatrix :
            /\ CanonicalDecimal(k)
            /\ \A f \in SampleFrames :
                   (/\ ~parseInt16(f.id).nan
                    /\ ~parseInt16(f.id).neg
                    /\ parseInt16(f.id).ip = parseInt10(k).ip)
                       => MessageKey(f) = k

\* Line l of the catalog is a message-definition line.
IsMessageLine(l) == MESSAGE_REGEX(trim(dbcLines[l])).ok

\* Line l of the catalog is a recognized signal line.
IsSignalLine(l) == ~IsMessageLine(l) /\ SIGNAL_REGEX(trim(dbcLines[l])).ok

\* The nearest message-definition line before line l, 0 when there is none.
OwnerLine(l) ==
    LET before == {m \in 1..(l - 1) : IsMessageLine(m)}
    IN  IF before = {} THEN 0 ELSE Max(before)

\* The identifier text a message-definition line declares.
DeclaredId(m) == MESSAGE_REGEX(trim(dbcLines[m])).groups[1]

\* The definitions a signal mapping holds under a name.
EntriesOf(signals, name) ==
    {signals.own[i].def : i \in {j \in 1..Len(signals.own) : signals.own[j].key = name}}

\* The names a signal mapping has entries for.
NamesOf(signals) == {signals.own[i].key : i \in 1..Len(signals.own)}

\* The step over a recognized signal line changes the matrix in the entry of
\* the message its nearest preceding message-definition line declares, by
\* setting that signal, and nowhere else; without such a line it changes
\* nothing.
SignalLineEffect ==
    (mpc = "loop" /\ dbcIdx <= Len(dbcLines) /\ dbcIdx' = dbcIdx + 1 /\ IsSignalLine(dbcIdx))
        => LET owner == OwnerLine(dbcIdx)
               def   == DbcSignal(SIGNAL_REGEX(trim(dbcLines[dbcIdx])))
           IN  IF owner = 0 THEN dbcMatrix' = dbcMatrix /\ dbcMatrix = <<>>
               ELSE /\ DOMAIN dbcMatrix' = DOMAIN dbcMatrix
                    /\ DeclaredId(owner) \in DOMAIN dbcMatrix
                    /\ \A k \in DOMAIN dbcMatrix :
                           IF k = DeclaredId(owner)
                           THEN /\ dbcMatrix'[k].name = dbcMatrix[k].name
                                /\ dbcMatrix'[k].name
                                       = MESSAGE_REGEX(trim(dbcLines[owner])).groups[2]
                                /\ EntriesOf(dbcMatrix'[k].signals, def.name) = {def}
                                /\ \A n \in NamesOf(dbcMatrix[k].signals) \ {def.name} :
                                       EntriesOf(dbcMatrix'[k].signals, n)
                                           = EntriesOf(dbcMatrix[k].signals, n)
                                /\ NamesOf(dbcMatrix'[k].signals)
                                       = NamesOf(dbcMatrix[k].signals) \cup {def.name}
                           ELSE dbcMatrix'[k] = dbcMatrix[k]

\* C13: over any sequence of catalog lines, each recognized signal line is
\* added to the signal mapping of the message declared by the nearest
\* preceding message-definition line and to no other message; signal lines
\* before the first message-definition line add nothing to the matrix.
C13_CurrentMessage == [][SignalLineEffect]_vars

\* The line matches neither the message pattern nor the signal pattern.
Unmatched(line) ==
    ~MESSAGE_REGEX(trim(line)).ok /\ ~SIGNAL_REGEX(trim(line)).ok

\* The document without its unmatched lines.
WithoutUnmatched(ls) ==
    JoinLines(SelectSeq(ls, LAMBDA line : ~Unmatched(line)), <<"\n">>)

\* C14: parseDbcFile returns a matrix for every input text, and the lines
\* that match neither pattern have no effect: the document without them gives
\* the same matrix.
C14_UnmatchedLinesIgnored ==
    mpc = "done" =>
        /\ dbcMatrix = parseDbcFile(dbcContent)
        /\ dbcMatrix = parseDbcFile(WithoutUnmatched(dbcLines))
        /\ \A k \in DOMAIN dbcMatrix :
               DOMAIN dbcMatrix[k] = {"name", "dlc", "signals"}

\* A catalog with an unmatched line between a message-definition line and a
\* signal line has been parsed, and the message holds the signal.
C14_Witness ==
    /\ mpc = "done"
    /\ Len(dbcLines) = 3
    /\ IsMessageLine(1)
    /\ Unmatched(dbcLines[2])
    /\ trim(dbcLines[2]) # <<>>
    /\ IsSignalLine(3)
    /\ Len(dbcMatrix[DeclaredId(1)].signals.own) = 1

\* Range texts a signal line can carry between its brackets.
SampleRanges ==
    {<< <<"0">>, <<"2", "5", "5">> >>, << <<"-", "1", ".", "5">>, <<"2">> >>}

\* The line with " [min|max]" put after its first closing parenthesis.
InsertRange(line, range) ==
    LET close == Min({i \in 1..Len(line) : line[i] = ")"})
    IN  SubSeq(line, 1, close) \o <<" ", "[">> \o range[1] \o <<"|">> \o range[2]
            \o <<"]">> \o SubSeq(line, close + 1, Len(line))

\* What signals[name] reads after name was assigned a signal: the own
\* property of that name, or the prototype for the name __proto__.
StoredUnder(signals, name) ==
    IF name = ProtoKey THEN {signals.proto} \ {Null} ELSE EntriesOf(signals, name)

\* The step over a recognized signal line without a range, under a current
\* message, stores a definition with min = 0 and max = 0 whose other fields
\* are those the same line gives with a range.
NoRangeEffect ==
    (/\ mpc = "loop" /\ dbcIdx <= Len(dbcLines) /\ dbcIdx' = dbcIdx + 1
     /\ IsSignalLine(dbcIdx)
     /\ ~SIGNAL_REGEX(trim(dbcLines[dbcIdx])).hasRange
     /\ OwnerLine(dbcIdx) # 0)
        => LET name    == SIGNAL_REGEX(trim(dbcLines[dbcIdx])).groups[1]
               entries == StoredUnder(dbcMatrix'[DeclaredId(OwnerLine(dbcIdx))].signals, name)
           IN  /\ Cardinality(entries) = 1
               /\ \A e \in entries :
                      /\ e.min = Zero
                      /\ e.max = Zero
                      /\ \A range \in SampleRanges :
                             LET match == SIGNAL_REGEX(trim(InsertRange(dbcLines[dbcIdx], range)))
                             IN  /\ match.ok
                                 /\ match.hasRange
                                 /\ DbcSignal(match).min = parseFloatSigned(range[1])
                                 /\ DbcSignal(match).max = parseFloatSigned(range[2])
                                 /\ [DbcSignal(match) EXCEPT !.min = Zero, !.max = Zero] = e

\* C15: a signal line without the bracketed range is accepted; its min and
\* max are exactly 0 and every other field is what the same line with a
\* range gives.
C15_AbsentRangeIsZero == [][NoRangeEffect]_vars

\* A signal line without a range has been stored under a message: the entry
\* has min = 0 and max = 0.
C15_Witness ==
    /\ mpc = "done"
    /\ Len(dbcLines) = 2
    /\ IsMessageLine(1)
    /\ IsSignalLine(2)
    /\ ~SIGNAL_REGEX(trim(dbcLines[2])).hasRange
    /\ Len(dbcMatrix[DeclaredId(1)].signals.own) = 1
    /\ dbcMatrix[DeclaredId(1)].signals.own[1].def.min = Zero
    /\ dbcMatrix[DeclaredId(1)].signals.own[1].def.max = Zero
    /\ dbcMatrix[DeclaredId(1)].signals.own[1].def.scale # Zero

\* The last message-definition line that declares the identifier text k.
LastDeclaration(k) ==
    Max({m \in 1..Len(dbcLines) : IsMessageLine(m) /\ DeclaredId(m) = k})

\* The recognized signal lines whose nearest preceding message-definition
\* line is line m.
SignalLinesOf(m) ==
    {l \in 1..Len(dbcLines) : IsSignalLine(l) /\ OwnerLine(l) = m}

\* The signal name a signal line declares.
NameAt(l) == SIGNAL_REGEX(trim(dbcLines[l])).groups[1]

\* C16: when several signal lines under one message declare the same name,
\* the message's mapping has exactly one entry under that name, and it is
\* the definition of the last of those lines.
C16_LastDefinitionWins ==
    mpc = "done" =>
        \A k \in DOMAIN dbcMatrix :
            LET signals == dbcMatrix[k].signals
                under   == SignalLinesOf(LastDeclaration(k))
            IN  \A l \in under :
                    LET same == {j \in under : NameAt(j) = NameAt(l)}
                    IN  Cardinality(same) >= 2 =>
                            /\ Cardinality({i \in 1..Len(signals.own) :
                                               signals.own[i].key = NameAt(l)}) = 1
                            /\ EntriesOf(signals, NameAt(l))
                                   = {DbcSignal(SIGNAL_REGEX(trim(dbcLines[Max(same)])))}

(***************************************************************************)
(* The round trip through extractSignalValue (under SpecRoundTrip)         *)
(***************************************************************************)

\* The number whose binary digits are the positions in K (below 2^47).
NumOfBits(K) ==
    [hi |-> FromBits({i - 16 : i \in {j \in K : j >= 16}}),
     lo |-> FromBits({j \in K : j < 16})]

\* The value a raw bit pattern of a signal stands for: the pattern as an
\* unsigned number, less 2^length when the signal is signed and the top bit
\* is set.
ValueOfBits(sig, K) ==
    IF sig.isSigned /\ (sig.length - 1) \in K
    THEN NumSub(NumOfBits(K), Pow2Num(sig.length))
    ELSE NumOfBits(K)

\* C17: for each byte order, every signal layout that fits in the payload
\* and every raw value representable in it, decoding the zeroed payload into
\* which the value's bits were written by the inverse of the extraction rule
\* returns the original physical value.
C17_RoundTrip ==
    (/\ epc = "returned"
     /\ FitsPayload(data, signal)
     /\ encodedBits \subseteq 0..(signal.length - 1)
     /\ data = Encode(signal, encodedBits))
        => physValue = ScaleOffset(ValueOfBits(signal, encodedBits), signal)

(***************************************************************************)
(* Decoding a decoded frame sequence again (under SpecDecode)              *)
(***************************************************************************)

\* Two frames carry the same decoded mapping: both lack one, or both have
\* one with the same keys and the same values.
SameDecoded(a, b) ==
    /\ ("decoded" \in DOMAIN a) = ("decoded" \in DOMAIN b)
    /\ "decoded" \in DOMAIN a =>
           /\ DOMAIN a.decoded = DOMAIN b.decoded
           /\ \A n \in DOMAIN a.decoded : a.decoded[n] = b.decoded[n]

\* C18: decodeMessages applied to its own result with the same matrix gives
\* every frame the decoded mapping it already had: the same keys, the same
\* values, and no mapping where there was none.
C18_DecodeIdempotent ==
    (decodes >= 2 /\ prevMatrix = matrix)
        => \A k \in 1..Len(decOut) : SameDecoded(decOut[k], decIn[k])

\* A second decode with the same matrix has returned; one frame carries a
\* mapping with an entry and one frame carries none.
C18_Witness ==
    /\ decodes = 2
    /\ dpc = "done"
    /\ prevMatrix = matrix
    /\ \E k \in 1..Len(decOut) :
           "decoded" \in DOMAIN decOut[k] /\ DOMAIN decOut[k].decoded # {}
    /\ \E k \in 1..Len(decOut) : "decoded" \notin DOMAIN decOut[k]

(***************************************************************************)
(* Frame counts and skipped lines of parseCanLogFile (under SpecParse)     *)
(***************************************************************************)

\* The positions of the characters of a line that are not whitespace.
NonSpaceAt(line) == {i \in 1..Len(line) : line[i] \notin WhiteSpace}

\* The line is empty after trimming, or its first non-whitespace character
\* is the comment marker.
BlankOrComment(line) ==
    \/ NonSpaceAt(line) = {}
    \/ line[Min(NonSpaceAt(line))] = ";"

\* The recognizers of a build of the parser.
RecognizersOf(b) == {logParsers(b)[i] : i \in 1..Len(logParsers(b))}

\* Every line that is neither blank nor a comment has the shape of the
\* recognizer p.
AllOfShape(p) ==
    \A l \in 1..Len(lines) :
        ~BlankOrComment(lines[l]) => Recognize(p, trim(lines[l])) # Null

\* C19: when every line of the document that is neither blank nor a comment
\* matches one fixed recognizer, the number of frames returned equals the
\* number of lines minus the blank and comment lines, whatever the file name.
C19_FrameCount ==
    (ppc = "done" /\ \E p \in RecognizersOf(build) : AllOfShape(p))
        => Len(messages)
               = Len(lines) - Cardinality({l \in 1..Len(lines) : BlankOrComment(lines[l])})

\* A document of a comment line and a line of the candump shape has been
\* parsed under a name that puts the candump recognizer last, and gave one
\* frame.
C19_Witness ==
    /\ ppc = "done"
    /\ Len(lines) = 2
    /\ \E l \in 1..2 : BlankOrComment(lines[l])
    /\ \E l \in 1..2 : ~BlankOrComment(lines[l])
    /\ AllOfShape("parseLogLine")
    /\ orderedParsers[Len(orderedParsers)] = "parseLogLine"
    /\ Len(messages) = 1

\* The text of a comment line after its marker.
AfterMarker(line) == SubSeq(line, Min(NonSpaceAt(line)) + 1, Len(line))

\* C20: a line that is empty after trimming, or whose first non-whitespace
\* character is ';', never produces a frame and is never handed to a
\* recognizer, under either recognizer order and either line ending.
C20_SkippedLinesGiveNoFrame ==
    /\ \A k \in 1..Len(origins) : ~BlankOrComment(lines[origins[k]])
    /\ \A c \in 1..Len(calls) : ~BlankOrComment(lines[calls[c][1]])
    /\ ppc = "done" =>
           Len(messages) <= Cardinality({l \in 1..Len(lines) : ~BlankOrComment(lines[l])})

\* A document with \r\n line endings has been parsed whose first line is a
\* comment with a remainder that a recognizer of the order matches, and
\* whose second line gave the only frame.
C20_Witness ==
    /\ ppc = "done"
    /\ \E i \in 1..Len(content) : content[i] = "\r"
    /\ Len(lines) = 2
    /\ BlankOrComment(lines[1])
    /\ NonSpaceAt(lines[1]) # {}
    /\ \E i \in 1..Len(orderedParsers) :
           Recognize(orderedParsers[i], trim(AfterMarker(lines[1]))) # Null
    /\ origins = <<2>>

(***************************************************************************)
(* Direction of the frames of parseCanLogFile (under SpecParse)            *)
(***************************************************************************)

\* The recognizer that returned the frame of line l: the last one called
\* on it.
WinnerOf(l) == calls[Max({c \in 1..Len(calls) : calls[c][1] = l})][2]

\* The recognizers whose format has no direction token.
NoDirectionFormats == {"parseLogLine", "parseCustomFormatLine"}

\* The direction token of a line of a format that has one: the third word
\* in the formats with a parenthesis after the message number, the fifth in
\* the format with a type column.
DirectionToken(parser, line) ==
    LET words == SplitWhitespace(trim(line))
    IN  IF parser = "parsePcanViewLine" THEN words[5] ELSE words[3]

\* C21: a frame of a format without a direction token (the parenthesised
\* timestamp with '#', and the plain timestamp/id/length/data format) has
\* isTx = false; a frame of a format with an Rx/Tx token has isTx = true
\* exactly when the token is Tx.
C21_Direction ==
    \A k \in 1..Len(messages) :
        LET l == origins[k]
            p == WinnerOf(l)
        IN  IF p \in NoDirectionFormats
            THEN messages[k].isTx = FALSE
            ELSE /\ DirectionToken(p, lines[l]) \in {<<"R", "x">>, <<"T", "x">>}
                 /\ messages[k].isTx = (DirectionToken(p, lines[l]) = <<"T", "x">>)

\* A document of a line with a Tx token and a line of a format without a
\* direction token has been parsed: the first frame is sent, the second
\* received.
C21_Witness ==
    /\ ppc = "done"
    /\ Len(messages) = 2
    /\ origins = <<1, 2>>
    /\ WinnerOf(1) \notin NoDirectionFormats
    /\ DirectionToken(WinnerOf(1), lines[1]) = <<"T", "x">>
    /\ messages[1].isTx
    /\ WinnerOf(2) \in NoDirectionFormats
    /\ ~messages[2].isTx

(***************************************************************************)
(* Message lines with the required fields only (under SpecDbc)             *)
(***************************************************************************)

\* The fields of a message-definition line that ends after the declared
\* byte length: BO_, a decimal identifier, a name, a colon, the length.
RequiredFields(s) ==
    LET p1 == Lit(s, Lit(s, Lit(s, 1, "B"), "O"), "_")
        p2 == Plus(s, p1, WhiteSpace)
        p3 == Plus(s, p2, Digit)
        p4 == Plus(s, p3, WhiteSpace)
        p5 == Plus(s, p4, WordChar)
        p6 == Lit(s, Star(s, p5, WhiteSpace), ":")
        p7 == Star(s, p6, WhiteSpace)
        p8 == Plus(s, p7, Digit)
    IN  IF AtEnd(s, p8)
        THEN Matched(<<Group(s, p2, p3), Group(s, p4, p5), Group(s, p7, p8)>>)
        ELSE NoMatch

\* Line l declares a message, with or without text after the length.
DeclaresMessage(l) ==
    IsMessageLine(l) \/ RequiredFields(trim(dbcLines[l])).ok

\* The identifier text line l declares.
IdentifierAt(l) ==
    IF IsMessageLine(l) THEN DeclaredId(l) ELSE RequiredFields(trim(dbcLines[l])).groups[1]

\* C22: a message-definition line with nothing after the declared length is
\* recognized: its message is in the matrix under its identifier with its
\* name, and the signal lines that follow it, up to the next message line,
\* are in that message's mapping.
C22_RequiredFieldsSuffice ==
    mpc = "done" =>
        \A l \in 1..Len(dbcLines) :
            (/\ RequiredFields(trim(dbcLines[l])).ok
             /\ \A m \in (l + 1)..Len(dbcLines) :
                    DeclaresMessage(m) => IdentifierAt(m) # IdentifierAt(l))
                => /\ IdentifierAt(l) \in DOMAIN dbcMatrix
                   /\ dbcMatrix[IdentifierAt(l)].name
                          = RequiredFields(trim(dbcLines[l])).groups[2]
                   /\ \A j \in (l + 1)..Len(dbcLines) :
                          (/\ IsSignalLine(j)
                           /\ \A m \in (l + 1)..(j - 1) : ~DeclaresMessage(m))
                              => NameAt(j) \in NamesOf(dbcMatrix[IdentifierAt(l)].signals)

\* C24: every SignalDefinition of a matrix parseDbcFile returns has a
\* bit-length of at least 1.
C24_LengthAtLeastOne ==
    mpc = "done" =>
        \A k \in DOMAIN dbcMatrix :
            \A i \in 1..Len(dbcMatrix[k].signals.own) :
                /\ ~dbcMatrix[k].signals.own[i].def.length.nan
                /\ dbcMatrix[k].signals.own[i].def.length.ip # <<>>

\* Two identifier texts write the same number.
SameIdentifier(a, b) == StripLeadingZeros(a) = StripLeadingZeros(b)

\* The message-definition lines that declare the identifier of the text k.
DeclarationsOf(k) ==
    {m \in 1..Len(dbcLines) : IsMessageLine(m) /\ SameIdentifier(DeclaredId(m), k)}

\* C29: when two message-definition lines declare the same identifier, the
\* matrix has one entry for it, with the name and length of the later line
\* and with the signals declared after the later line only; the signals
\* declared under the earlier line are absent.
C29_LaterMessageLineWins ==
    mpc = "done" =>
        \A k \in DOMAIN dbcMatrix :
            Cardinality(DeclarationsOf(k)) >= 2 =>
                LET later  == Max(DeclarationsOf(k))
                    match  == MESSAGE_REGEX(trim(dbcLines[later]))
                    before == {l \in 1..(later - 1) :
                                  IsSignalLine(l) /\ OwnerLine(l) \in DeclarationsOf(k)}
                    after  == SignalLinesOf(later)
                IN  /\ Cardinality({j \in DOMAIN dbcMatrix : SameIdentifier(j, k)}) = 1
                    /\ dbcMatrix[k].name = match.groups[2]
                    /\ dbcMatrix[k].dlc = parseInt10(match.groups[3])
                    /\ NamesOf(dbcMatrix[k].signals) \subseteq {NameAt(l) : l \in after}
                    /\ StoredUnder(dbcMatrix[k].signals, ProtoKey)
                           \subseteq {DbcSignal(SIGNAL_REGEX(trim(dbcLines[l]))) : l \in after}
                    /\ \A l \in after :
                           StoredUnder(dbcMatrix[k].signals, NameAt(l)) # {}
                    /\ \A l \in before :
                           NameAt(l) \notin {NameAt(j) : j \in after}
                               => NameAt(l) \notin NamesOf(dbcMatrix[k].signals)

(***************************************************************************)
(* Unsigned signals (under SpecExtract)                                    *)
(***************************************************************************)

\* The layout of sigOdometer in the bundled catalog: big-endian, unsigned,
\* 32 bits from start bit 32.
IsOdometerLayout(sig) ==
    /\ sig.startBit = 32
    /\ sig.length = 32
    /\ ~sig.isLittleEndian
    /\ ~sig.isSigned

\* C26: for an unsigned signal of length L in 1..64, of either byte order,
\* with scale 1 and offset 0, the decoded value lies in 0..2^L-1 for every
\* payload; the number that sigOdometer's scale multiplies is never
\* negative.
C26_UnsignedNeverNegative ==
    (epc = "returned" /\ ~signal.isSigned /\ FitsPayload(data, signal))
        => /\ (signal.scale = 1 /\ signal.offset = 0)
                  => /\ ~NumLess(physValue, Num(0))
                     /\ signal.length <= 46 => NumLess(physValue, Pow2Num(signal.length))
           /\ IsOdometerLayout(signal) => ~NumLess(rawAdjusted, Num(0))

(***************************************************************************)
(* The catalog key of a parsed frame (under SpecParse)                     *)
(***************************************************************************)

\* The identifier token of a line as written: before the '#' of the third
\* word in the parenthesised-timestamp format, the second word in the plain
\* format, the fourth word in the others.
IdToken(parser, line) ==
    LET words == SplitWhitespace(trim(line))
        third == words[3]
        hash  == Min({i \in 1..Len(third) : third[i] = "#"})
    IN  IF parser = "parseLogLine" THEN SubSeq(third, 1, hash - 1)
        ELSE IF parser = "parseCustomFormatLine" THEN words[2]
        ELSE words[4]

\* C28: for every line parseCanLogFile accepts, the key decodeMessages looks
\* up for the frame is the decimal text of the numeric value of the
\* identifier token as written in the line, whether the token is bare
\* hexadecimal digits or has a leading 0x or 0X.
C28_KeyIsNumericValue ==
    \A k \in 1..Len(messages) :
        LET token == IdToken(WinnerOf(origins[k]), lines[origins[k]])
        IN  (\A i \in 1..Len(IdDigits(token)) : IdDigits(token)[i] \in HexDigit)
                => MessageKey(messages[k]) = HexToDecimal(IdDigits(token))

(***************************************************************************)
(* The file name and the frames of parseCanLogFile (under SpecParse)       *)
(***************************************************************************)

\* The recognizer of an order that wins on a line, "" when none matches.
WinnerUnder(order, line) ==
    IF FirstMatch(order, trim(line)) = 0 THEN ""
    ELSE order[FirstMatch(order, trim(line))]

\* The frames the lines give under an order: for each line that is neither
\* blank nor a comment and that some recognizer matches, the frame of the
\* first recognizer of the order that matches it.
FramesUnder(order) ==
    LET hits == SelectSeq([l \in 1..Len(lines) |-> l],
                          LAMBDA l : /\ ~BlankOrComment(lines[l])
                                     /\ WinnerUnder(order, lines[l]) # "")
    IN  [k \in 1..Len(hits) |->
            Recognize(WinnerUnder(order, lines[hits[k]]), trim(lines[hits[k]]))]

\* C27: the frames parseCanLogFile returns for a text are the same under
\* every file name (ending in .log, ending in .trc, another extension, or
\* none), and on every line the same recognizer wins under each of them.
C27_FileNameIrrelevant ==
    ppc = "done" =>
        \A order \in {SelectParsers(build, name) : name \in SampleFileNames} :
            /\ messages = FramesUnder(order)
            /\ \A l \in 1..Len(lines) :
                   ~BlankOrComment(lines[l])
                       => WinnerUnder(order, lines[l]) = WinnerUnder(orderedParsers, lines[l])

\* A document of a candump line and a line that two recognizers match has
\* been parsed under the trace-first order, and both lines gave a frame.
C27_Witness ==
    /\ ppc = "done"
    /\ orderedParsers = trcParsers(build)
    /\ orderedParsers # SelectParsers(build, NameOther)
    /\ Len(lines) = 2
    /\ Len(messages) = 2
    /\ WinnerOf(1) = "parseLogLine"
    /\ Cardinality({i \in 1..Len(orderedParsers) :
                       Recognize(orderedParsers[i], trim(lines[2])) # Null}) >= 2

(***************************************************************************)
(* The payload of a decode (under SpecDecode)                              *)
(***************************************************************************)

\* The first min(dlc, number of data tokens) bytes of a frame.
DeclaredPayload(message) ==
    SubSeq(DataBytes(message), 1,
           Cardinality({i \in 1..Len(message.data) :
                          ~IndexLess(message.dlc.ip, NatNumber(i).ip)}))

\* C23: the payload bytes used for signal extraction are the first
\* min(dlc, number of data tokens) bytes of the frame; the data tokens at
\* index dlc and beyond give no set bit to any decoded signal.
C23_PayloadWithinDlc ==
    \A k \in 1..Len(decOut) :
        ~CatalogMiss(decIn[k])
            => decOut[k].decoded
                   = DecodedSignals(DeclaredPayload(decIn[k]), matrix[MessageKey(decIn[k])])

\* The signal names of the definition the matrix has for a frame.
DefinedNames(message) ==
    LET sigs == matrix[MessageKey(message)].signals.own
    IN  {sigs[i].def.name : i \in 1..Len(sigs)}

\* C30: after decodeMessages(frames, M) every output frame, also one that
\* came in with a mapping from a decode against another matrix, has a
\* decoded mapping if and only if M has an entry for its identifier, and
\* the mapping holds only signals of M's definition.
C30_DecodedIffDefined ==
    \A k \in 1..Len(decOut) :
        /\ ("decoded" \in DOMAIN decOut[k]) <=> ~CatalogMiss(decIn[k])
        /\ ~CatalogMiss(decIn[k])
               => DOMAIN decOut[k].decoded \subseteq DefinedNames(decIn[k])

(***************************************************************************)
(* Decoding the parts of a frame list separately (under SpecPartition)     *)
(***************************************************************************)

\* After the three calls the arrays of the two parts, one after the other,
\* read as the array of the whole list does.
PartsGiveWhole ==
    called = {"first", "second", "whole"}
        => Contents(partOut[1] \o partOut[2], heap) = Contents(decOut, heap)

\* C25: decoding is per-frame independent and leaves the matrix untouched:
\* when the parts of a frame list are decoded by separate calls, in any order
\* among themselves and with the call on the whole list, against one shared
\* matrix, the concatenated results equal the decode of the whole list, and
\* no call changes the matrix.
C25_PartitionedDecode == []PartsGiveWhole /\ [][matrix' = matrix]_vars

\* A list of two frames, both with a definition and with different values,
\* has been decoded in two parts of one frame each, the call on the whole
\* list coming between the call on the second part and the call on the first.
C25_Witness ==
    /\ called = {"first", "second", "whole"}
    /\ cut = 1
    /\ Len(decIn) = 2
    /\ "decoded" \in DOMAIN decOut[1]
    /\ "decoded" \in DOMAIN decOut[2]
    /\ Deref(decOut[1], heap).decoded # Deref(decOut[2], heap).decoded
    /\ partOut[2][1].decoded.ref < decOut[1].decoded.ref
    /\ decOut[2].decoded.ref < partOut[1][1].decoded.ref

====
